---- MODULE Spec2Model ----
(***************************************************************************)
(* Model of the peer-connection bootstrap and wire layer:                  *)
(*   src/src/network_connect.rs  (Message encode/decode, the length        *)
(*   prefixed Codec, RepoHandle::connect_tokio_io)                         *)
(* Byte strings are sequences of 0..255; text is its UTF-8 byte sequence.   *)
(***************************************************************************)
EXTENDS Integers, Sequences, FiniteSets, TLC

\* ------------------------------------------------------------------------
\* Bounds of the model
\* ------------------------------------------------------------------------
\* Number of messages the sending side of the codec scenario encodes.
MaxMsgs == 2
\* Number of items the remote peer of a connection puts on its stream.
\* Calls made on one storage
MaxCalls == 4
MaxItems == 3

\* ------------------------------------------------------------------------
\* Unsigned numbers read from the wire (u32 prefix, u64 CBOR arguments).
\* A number is kept exactly, as its four 16-bit limbs, most significant first:
\* <<a, b, c, d>> is a * 2^48 + b * 2^32 + c * 2^16 + d.
\* ------------------------------------------------------------------------
Limb == 65536

\* The number n of the model (a length, a count) as a wire number
Wide(n) == <<0, 0, n \div Limb, n % Limb>>

\* w * 256 + b, modulo 2^64
WideShl8(w, b) ==
    <<(w[1] % 256) * 256 + w[2] \div 256,
      (w[2] % 256) * 256 + w[3] \div 256,
      (w[3] % 256) * 256 + w[4] \div 256,
      (w[4] % 256) * 256 + b>>

\* w is below 2^31, the numbers a length of the model can be compared with
WideFits(w) == w[1] = 0 /\ w[2] = 0 /\ w[3] < Limb \div 2

\* The value of a w that fits
WideInt(w) == w[3] * Limb + w[4]

\* w > n
WideGt(w, n) == ~WideFits(w) \/ WideInt(w) > n

WideIsZero(w) == w = <<0, 0, 0, 0>>

\* a <= b
WideLe(a, b) ==
    \/ a[1] < b[1]
    \/ a[1] = b[1] /\ a[2] < b[2]
    \/ a[1] = b[1] /\ a[2] = b[2] /\ a[3] < b[3]
    \/ a[1] = b[1] /\ a[2] = b[2] /\ a[3] = b[3] /\ a[4] <= b[4]

WideMax(a, b) == IF WideLe(a, b) THEN b ELSE a

\* a + b, modulo 2^64
WideAdd(a, b) ==
    <<(a[1] + b[1] + (a[2] + b[2] + (a[3] + b[3] + (a[4] + b[4]) \div Limb)
                          \div Limb) \div Limb) % Limb,
      (a[2] + b[2] + (a[3] + b[3] + (a[4] + b[4]) \div Limb) \div Limb) % Limb,
      (a[3] + b[3] + (a[4] + b[4]) \div Limb) % Limb,
      (a[4] + b[4]) % Limb>>

\* a - b for a not below b: a plus the two's complement of b
WideSub(a, b) ==
    WideAdd(WideAdd(a, <<Limb - 1 - b[1], Limb - 1 - b[2], Limb - 1 - b[3],
                         Limb - 1 - b[4]>>),
            <<0, 0, 0, 1>>)

\* w - 1 for a w above zero
WidePred(w) ==
    IF w[4] > 0 THEN <<w[1], w[2], w[3], w[4] - 1>>
    ELSE IF w[3] > 0 THEN <<w[1], w[2], w[3] - 1, Limb - 1>>
    ELSE IF w[2] > 0 THEN <<w[1], w[2] - 1, Limb - 1, Limb - 1>>
    ELSE <<w[1] - 1, Limb - 1, Limb - 1, Limb - 1>>

\* ------------------------------------------------------------------------
\* Text constants of the wire format (ASCII)
\* ------------------------------------------------------------------------
KeyType == <<116, 121, 112, 101>>
KeySenderId == <<115, 101, 110, 100, 101, 114, 73, 100>>
KeyTargetId == <<116, 97, 114, 103, 101, 116, 73, 100>>
KeyDocumentId == <<100, 111, 99, 117, 109, 101, 110, 116, 73, 100>>
KeyMessage == <<109, 101, 115, 115, 97, 103, 101>>
TypeJoin == <<106, 111, 105, 110>>
TypeJoined == <<106, 111, 105, 110, 101, 100>>
TypeMessage == <<109, 101, 115, 115, 97, 103, 101>>

\* Option<T>: <<>> is None, <<v>> is Some(v)
None == <<>>
Some(v) == <<v>>
IsSome(o) == Len(o) = 1
Unwrap(o) == o[1]

\* Op applied to the value of v, v being computed once
Bind(v, Op(_)) == CHOOSE y \in {Op(x) : x \in {v}} : TRUE

Take(s, n) == SubSeq(s, 1, n)
Drop(s, n) == SubSeq(s, n + 1, Len(s))

\* ------------------------------------------------------------------------
\* CBOR primitives used by Message::encode (minicbor::Encoder)
\* ------------------------------------------------------------------------
MajorBytes == 2
MajorText == 3
MajorArray == 4
MajorMap == 5
MajorTag == 6

\* The head of a data item: major type and length/value in its shortest form.
CborHead(major, n) ==
    IF n <= 23 THEN <<major * 32 + n>>
    ELSE IF n <= 255 THEN <<major * 32 + 24, n>>
    ELSE IF n <= 65535 THEN <<major * 32 + 25, n \div 256, n % 256>>
    ELSE <<major * 32 + 26, (n \div 16777216) % 256, (n \div 65536) % 256,
           (n \div 256) % 256, n % 256>>

EncMap(n) == CborHead(MajorMap, n)
EncStr(s) == CborHead(MajorText, Len(s)) \o s
EncBytes(s) == CborHead(MajorBytes, Len(s)) \o s

\* ------------------------------------------------------------------------
\* CBOR primitives used by Message::decode (minicbor::Decoder)
\* A decoder position is the number of bytes already read.
\* ------------------------------------------------------------------------
TypeOf(b) == b \div 32
InfoOf(b) == b % 32

CborFail == [ok |-> FALSE]

\* The big-endian value of bytes, acc being the value of the bytes before
RECURSIVE BEValue(_, _)
BEValue(bytes, acc) ==
    IF bytes = <<>> THEN acc
    ELSE BEValue(Tail(bytes), WideShl8(acc, Head(bytes)))

\* The number of bytes that hold the argument of a head with this info
ArgLen(info) ==
    CASE info < 24 -> 0
      [] info = 24 -> 1
      [] info = 25 -> 2
      [] info = 26 -> 4
      [] info = 27 -> 8
      [] OTHER -> -1

\* Decoder::unsigned: the argument of a head whose first byte was read at pos-1
CborUnsigned(data, pos, info) ==
    IF ArgLen(info) = -1 THEN CborFail
    ELSE IF ArgLen(info) = 0 THEN [ok |-> TRUE, val |-> Wide(info), pos |-> pos]
    ELSE IF pos + ArgLen(info) > Len(data) THEN CborFail
    ELSE [ok |-> TRUE,
          val |-> BEValue(SubSeq(data, pos + 1, pos + ArgLen(info)), Wide(0)),
          pos |-> pos + ArgLen(info)]

\* s[i] is a continuation byte whose value lies in lo..hi
Utf8Tail(s, i, lo, hi) == i <= Len(s) /\ s[i] >= lo /\ s[i] <= hi

\* core::str::from_utf8 accepts s from its byte i on: well-formed sequences
\* only, no overlong form, no surrogate, nothing above U+10FFFF
RECURSIVE Utf8From(_, _)
Utf8From(s, i) ==
    IF i > Len(s) THEN TRUE
    ELSE IF s[i] < 128 THEN Utf8From(s, i + 1)
    ELSE IF s[i] >= 194 /\ s[i] <= 223
         THEN Utf8Tail(s, i + 1, 128, 191) /\ Utf8From(s, i + 2)
    ELSE IF s[i] >= 224 /\ s[i] <= 239
         THEN /\ Utf8Tail(s, i + 1, IF s[i] = 224 THEN 160 ELSE 128,
                                    IF s[i] = 237 THEN 159 ELSE 191)
              /\ Utf8Tail(s, i + 2, 128, 191)
              /\ Utf8From(s, i + 3)
    ELSE IF s[i] >= 240 /\ s[i] <= 244
         THEN /\ Utf8Tail(s, i + 1, IF s[i] = 240 THEN 144 ELSE 128,
                                    IF s[i] = 244 THEN 143 ELSE 191)
              /\ Utf8Tail(s, i + 2, 128, 191)
              /\ Utf8Tail(s, i + 3, 128, 191)
              /\ Utf8From(s, i + 4)
    ELSE FALSE

\* core::str::from_utf8(s).is_ok()
IsUtf8(s) == Utf8From(s, 1)

\* read_slice(n): the n bytes after the head u
CborSlice(data, u) ==
    IF ~u.ok THEN CborFail
    ELSE IF WideGt(u.val, Len(data) - u.pos) THEN CborFail
    ELSE [ok |-> TRUE, val |-> SubSeq(data, u.pos + 1, u.pos + WideInt(u.val)),
          pos |-> u.pos + WideInt(u.val)]

\* Decoder::bytes / Decoder::str share this: a definite-length string of the
\* given major type.
CborString(data, pos, major) ==
    IF pos >= Len(data) THEN CborFail
    ELSE IF TypeOf(data[pos + 1]) # major \/ InfoOf(data[pos + 1]) = 31 THEN CborFail
    ELSE CborSlice(data, CborUnsigned(data, pos + 1, InfoOf(data[pos + 1])))

Utf8Checked(r) == IF r.ok /\ ~IsUtf8(r.val) THEN CborFail ELSE r

CborStr(data, pos) == Utf8Checked(CborString(data, pos, MajorText))

CborBytes(data, pos) == CborString(data, pos, MajorBytes)

\* Decoder::skip: one data item with all it holds. Text is passed over by its
\* length, without a look at its bytes.
RECURSIVE CborSkipItem(_, _)
RECURSIVE CborSkipItems(_, _, _)
RECURSIVE CborSkipToBreak(_, _, _)

\* n data items from pos on
CborSkipItems(data, pos, n) ==
    IF n = 0 THEN [ok |-> TRUE, pos |-> pos]
    ELSE Bind(CborSkipItem(data, pos), LAMBDA r : IF ~r.ok THEN CborFail
                         ELSE CborSkipItems(data, r.pos, n - 1))

\* The pieces of an indefinite-length item of major type t, up to its break
\* byte: definite strings of the same type for a string, any items otherwise
CborSkipToBreak(data, pos, t) ==
    IF pos >= Len(data) THEN CborFail
    ELSE IF data[pos + 1] = 255 THEN [ok |-> TRUE, pos |-> pos + 1]
    ELSE IF t \in {MajorBytes, MajorText}
            /\ (TypeOf(data[pos + 1]) # t \/ InfoOf(data[pos + 1]) = 31)
         THEN CborFail
    ELSE Bind(CborSkipItem(data, pos), LAMBDA r : IF ~r.ok THEN CborFail
                         ELSE CborSkipToBreak(data, r.pos, t))

\* The item of major type t whose head u has been read
CborSkipAfterHead(data, t, u) ==
    IF ~u.ok THEN CborFail
    ELSE IF t \in {0, 1, 7} THEN [ok |-> TRUE, pos |-> u.pos]
    ELSE IF t \in {MajorBytes, MajorText}
         THEN IF WideGt(u.val, Len(data) - u.pos) THEN CborFail
              ELSE [ok |-> TRUE, pos |-> u.pos + WideInt(u.val)]
    ELSE IF t = MajorArray
         THEN IF WideGt(u.val, Len(data)) THEN CborFail
              ELSE CborSkipItems(data, u.pos, WideInt(u.val))
    ELSE IF t = MajorMap
         THEN IF WideGt(u.val, Len(data)) THEN CborFail
              ELSE CborSkipItems(data, u.pos, 2 * WideInt(u.val))
    ELSE CborSkipItem(data, u.pos)

CborSkipItem(data, pos) ==
    IF pos >= Len(data) THEN CborFail
    ELSE IF InfoOf(data[pos + 1]) = 31
         THEN IF TypeOf(data[pos + 1]) \in {MajorBytes, MajorText, MajorArray, MajorMap}
              THEN CborSkipToBreak(data, pos + 1, TypeOf(data[pos + 1]))
              ELSE CborFail
    ELSE IF InfoOf(data[pos + 1]) > 27 THEN CborFail
    ELSE Bind(CborUnsigned(data, pos + 1, InfoOf(data[pos + 1])),
              LAMBDA u : CborSkipAfterHead(data, TypeOf(data[pos + 1]), u))

CborSkip(data, pos) == CborSkipItem(data, pos)

\* ------------------------------------------------------------------------
\* Message (crate::interfaces::Message as network_connect.rs uses it)
\* ------------------------------------------------------------------------
Join(id) == [kind |-> "Join", id |-> id]
Joined(id) == [kind |-> "Joined", id |-> id]
Sync(from, to, doc, data) ==
    [kind |-> "Sync", from_repo_id |-> from, to_repo_id |-> to,
     document_id |-> doc, message |-> data]
\* A Message the encoder has no arm for: it reaches the wildcard arm.
Ephemeral(from, to, doc, data) ==
    [kind |-> "Ephemeral", from_repo_id |-> from, to_repo_id |-> to,
     document_id |-> doc, message |-> data]

DecodeErr(e) == [ok |-> FALSE, err |-> e]
UnknownType(t) == [ok |-> FALSE, err |-> "UnknownType", value |-> t]
DecodeOk(m) == [ok |-> TRUE, msg |-> m]

NoFields ==
    [sender_id |-> None, target_id |-> None, document_id |-> None,
     type_name |-> None, message |-> None]

\* The loop over the map's entries: n entries are still to be read.
RECURSIVE DecodeEntries(_, _, _, _)
RECURSIVE DecodeValue(_, _, _, _, _)
RECURSIVE DecodeSkipped(_, _, _, _)

\* name = Some(value), then the next entry
DecodeValue(data, n, f, name, v) ==
    IF ~v.ok THEN DecodeErr("Minicbor")
    ELSE DecodeEntries(data, v.pos, WidePred(n), [f EXCEPT ![name] = Some(v.val)])

\* DecodeSkipped that takes an unknown key as the end of the map
DecodeSkippedEndsLoop(data, n, f, v) ==
    IF ~v.ok THEN DecodeErr("Minicbor")
    ELSE [ok |-> TRUE, fields |-> f]

\* _ => decoder.skip()?
DecodeSkipped(data, n, f, v) ==
    IF ~v.ok THEN DecodeErr("Minicbor")
    ELSE DecodeEntries(data, v.pos, WidePred(n), f)

\* match decoder.str()? { ... } for the key k
DecodeEntry(data, n, f, k) ==
    IF ~k.ok THEN DecodeErr("Minicbor")
    ELSE IF k.val = KeySenderId
         THEN Bind(CborStr(data, k.pos),
                   LAMBDA v : DecodeValue(data, n, f, "sender_id", v))
    ELSE IF k.val = KeyTargetId
         THEN Bind(CborStr(data, k.pos),
                   LAMBDA v : DecodeValue(data, n, f, "target_id", v))
    ELSE IF k.val = KeyDocumentId
         THEN Bind(CborStr(data, k.pos),
                   LAMBDA v : DecodeValue(data, n, f, "document_id", v))
    ELSE IF k.val = KeyType
         THEN Bind(CborStr(data, k.pos),
                   LAMBDA v : DecodeValue(data, n, f, "type_name", v))
    ELSE IF k.val = KeyMessage
         THEN Bind(CborBytes(data, k.pos),
                   LAMBDA v : DecodeValue(data, n, f, "message", v))
    ELSE Bind(CborSkip(data, k.pos), LAMBDA v : DecodeSkipped(data, n, f, v))

DecodeEntries(data, pos, n, f) ==
    IF WideIsZero(n) THEN [ok |-> TRUE, fields |-> f]
    ELSE Bind(CborStr(data, pos), LAMBDA k : DecodeEntry(data, n, f, k))

\* decoder.map()?.ok_or(MissingLen)?
MapLen(u) ==
    IF ~u.ok THEN DecodeErr("Minicbor")
    ELSE [ok |-> TRUE, len |-> u.val, pos |-> u.pos]

\* DecodeMapHead that reads an empty input as a map of no entries
DecodeMapHeadEmptyIsMap(data) ==
    IF Len(data) = 0 THEN [ok |-> TRUE, len |-> Wide(0), pos |-> 0]
    ELSE IF data[1] = 191 THEN DecodeErr("MissingLen")
    ELSE IF TypeOf(data[1]) # MajorMap THEN DecodeErr("Minicbor")
    ELSE MapLen(CborUnsigned(data, 1, InfoOf(data[1])))

\* decoder.map()?: the head of the map, MissingLen for an indefinite one
DecodeMapHead(data) ==
    IF Len(data) = 0 THEN DecodeErr("Minicbor")
    ELSE IF data[1] = 191 THEN DecodeErr("MissingLen")
    ELSE IF TypeOf(data[1]) # MajorMap THEN DecodeErr("Minicbor")
    ELSE MapLen(CborUnsigned(data, 1, InfoOf(data[1])))

\* DecodeDispatch with the target id looked at before the sender id
DecodeDispatchTargetFirst(f) ==
    IF ~IsSome(f.type_name) THEN DecodeErr("MissingType")
    ELSE IF Unwrap(f.type_name) = TypeJoin
         THEN IF ~IsSome(f.sender_id) THEN DecodeErr("MissingSenderId")
              ELSE DecodeOk(Join(Unwrap(f.sender_id)))
    ELSE IF Unwrap(f.type_name) = TypeMessage
         THEN IF ~IsSome(f.target_id) THEN DecodeErr("MissingTargetId")
              ELSE IF ~IsSome(f.sender_id) THEN DecodeErr("MissingSenderId")
              ELSE IF ~IsSome(f.document_id) THEN DecodeErr("MissingDocumentId")
              ELSE IF ~IsSome(f.message) THEN DecodeErr("MissingData")
              ELSE DecodeOk(Sync(Unwrap(f.sender_id), Unwrap(f.target_id),
                                 Unwrap(f.document_id), Unwrap(f.message)))
    ELSE IF Unwrap(f.type_name) = TypeJoined
         THEN IF ~IsSome(f.sender_id) THEN DecodeErr("MissingSenderId")
              ELSE DecodeOk(Joined(Unwrap(f.sender_id)))
    ELSE UnknownType(Unwrap(f.type_name))

\* match type_name { ... }
DecodeDispatch(f) ==
    IF ~IsSome(f.type_name) THEN DecodeErr("MissingType")
    ELSE IF Unwrap(f.type_name) = TypeJoin
         THEN IF ~IsSome(f.sender_id) THEN DecodeErr("MissingSenderId")
              ELSE DecodeOk(Join(Unwrap(f.sender_id)))
    ELSE IF Unwrap(f.type_name) = TypeMessage
         THEN IF ~IsSome(f.sender_id) THEN DecodeErr("MissingSenderId")
              ELSE IF ~IsSome(f.target_id) THEN DecodeErr("MissingTargetId")
              ELSE IF ~IsSome(f.document_id) THEN DecodeErr("MissingDocumentId")
              ELSE IF ~IsSome(f.message) THEN DecodeErr("MissingData")
              ELSE DecodeOk(Sync(Unwrap(f.sender_id), Unwrap(f.target_id),
                                 Unwrap(f.document_id), Unwrap(f.message)))
    ELSE IF Unwrap(f.type_name) = TypeJoined
         THEN IF ~IsSome(f.sender_id) THEN DecodeErr("MissingSenderId")
              ELSE DecodeOk(Joined(Unwrap(f.sender_id)))
    ELSE UnknownType(Unwrap(f.type_name))

\* The match, once the entry loop has ended (e) without a decoder error
DecodeFinish(e) == IF ~e.ok THEN e ELSE DecodeDispatch(e.fields)

\* The entry loop, once decoder.map() has given the length (h)
DecodeBody(data, h) ==
    IF ~h.ok THEN h
    ELSE Bind(DecodeEntries(data, h.pos, h.len, NoFields), DecodeFinish)

\* Message::decode
MessageDecode(data) ==
    Bind(DecodeMapHead(data), LAMBDA h : DecodeBody(data, h))

\* Message::encode; [ok |-> FALSE] is the panic of the todo!() arm
EncodeJoin(m) ==
    EncMap(2) \o EncStr(KeyType) \o EncStr(TypeJoin)
              \o EncStr(KeySenderId) \o EncStr(m.id)

EncodeJoined(m) ==
    EncMap(2) \o EncStr(KeyType) \o EncStr(TypeJoined)
              \o EncStr(KeySenderId) \o EncStr(m.id)

EncodeSync(m) ==
    EncMap(5) \o EncStr(KeyType) \o EncStr(TypeMessage)
              \o EncStr(KeySenderId) \o EncStr(m.from_repo_id)
              \o EncStr(KeyTargetId) \o EncStr(m.to_repo_id)
              \o EncStr(KeyDocumentId) \o EncStr(m.document_id)
              \o EncStr(KeyMessage) \o EncBytes(m.message)

MessageEncode(m) ==
    IF m.kind = "Join" THEN [ok |-> TRUE, bytes |-> EncodeJoin(m)]
    ELSE IF m.kind = "Sync" THEN [ok |-> TRUE, bytes |-> EncodeSync(m)]
    ELSE IF m.kind = "Joined" THEN [ok |-> TRUE, bytes |-> EncodeJoined(m)]
    ELSE [ok |-> FALSE]

\* ------------------------------------------------------------------------
\* Codec: 4-byte big-endian length, then the body
\* ------------------------------------------------------------------------
\* u32::to_be_bytes of (len as u32)
U32ToBe(n) ==
    <<(n \div 16777216) % 256, (n \div 65536) % 256, (n \div 256) % 256, n % 256>>

\* u32::from_be_bytes(..) as usize
U32FromBe(b) == BEValue(b, Wide(0))

\* FramePrefixed with the prefix counted in the length it announces
FramePrefixedLenWithPrefix(e) ==
    IF ~e.ok THEN [ok |-> FALSE]
    ELSE [ok |-> TRUE, bytes |-> U32ToBe(Len(e.bytes) + 4) \o e.bytes]

\* The length prefix followed by the encoded body e
FramePrefixed(e) ==
    IF ~e.ok THEN [ok |-> FALSE]
    ELSE [ok |-> TRUE, bytes |-> U32ToBe(Len(e.bytes)) \o e.bytes]

\* Encoder<Message>::encode: the bytes appended to dst
CodecEncode(m) == FramePrefixed(MessageEncode(m))

\* Message::decode(&data).map(Some).map_err(Into::into), after the advance
FrameResult(r, rest) ==
    IF r.ok THEN [kind |-> "Some", msg |-> r.msg, rest |-> rest]
    ELSE [kind |-> "Err", err |-> r, rest |-> rest]

\* DecodeFrame that wants one byte more than the frame holds
DecodeFrameOffByOne(src, len) ==
    IF WideGt(len, Len(src) - 5) THEN [kind |-> "None", rest |-> src]
    ELSE Bind(MessageDecode(SubSeq(src, 5, WideInt(len) + 4)),
              LAMBDA r : FrameResult(r, Drop(src, WideInt(len) + 4)))

\* DecodeFrame that consumes the length prefix as it reads it
DecodeFrameEatsPrefix(src, len) ==
    IF WideGt(len, Len(src) - 4) THEN [kind |-> "None", rest |-> Drop(src, 4)]
    ELSE Bind(MessageDecode(SubSeq(src, 5, WideInt(len) + 4)),
              LAMBDA r : FrameResult(r, Drop(src, WideInt(len) + 4)))

\* DecodeFrame that leaves a frame it cannot decode in the buffer
DecodeFrameKeepsBadFrame(src, len) ==
    IF WideGt(len, Len(src) - 4) THEN [kind |-> "None", rest |-> src]
    ELSE Bind(MessageDecode(SubSeq(src, 5, WideInt(len) + 4)),
              LAMBDA r : FrameResult(r, IF r.ok THEN Drop(src, WideInt(len) + 4) ELSE src))

\* Decoder::decode from the length check on, len being the prefix's value
DecodeFrame(src, len) ==
    IF WideGt(len, Len(src) - 4) THEN [kind |-> "None", rest |-> src]
    ELSE Bind(MessageDecode(SubSeq(src, 5, WideInt(len) + 4)),
              LAMBDA r : FrameResult(r, Drop(src, WideInt(len) + 4)))

\* The widths usize has on the targets of a build
UsizeWidths == {32, 64}

\* len + 4 does not fit usize: on a 32-bit target, for the four largest
\* prefixes. Where overflow is checked the sum panics; where it wraps, it is
\* below 4, the length check passes and the slice src[4..len + 4] panics.
LenOverflows(bits, len) ==
    bits = 32 /\ len[1] = 0 /\ len[2] = 0 /\ len[3] = Limb - 1 /\ len[4] >= Limb - 4

\* A BytesMut's place in its allocation: off bytes advanced over in front
\* of the readable bytes, room for cap bytes from there on
Buf(off, cap) == [off |-> off, cap |-> cap]

\* tokio_util::codec::Framed's read buffer: BytesMut::with_capacity(8 KiB)
InitialCapacity == 8192

\* Buf::advance(n)
BufAdvance(buf, n) == Buf(buf.off + n, WideSub(buf.cap, Wide(n)))

\* The Vec of a buffer, off + len bytes of off + cap, has room for newCap
\* bytes or, beyond isize::MAX, panics with a capacity overflow
VecGrown(bits, buf, newCap) ==
    IF bits = 32 /\ ~WideLe(newCap, Wide(2147483647))
    THEN [panic |-> TRUE, buf |-> buf]
    ELSE [panic |-> FALSE, buf |-> Buf(buf.off, WideSub(newCap, Wide(buf.off)))]

\* Vec::reserve(additional) when the room does not do: the capacity becomes
\* the larger of twice the old one and what is required, 8 at least
VecReserve(bits, buf, len, additional) ==
    VecGrown(bits, buf,
             WideMax(Wide(8),
                     WideMax(WideAdd(WideAdd(Wide(buf.off), buf.cap),
                                     WideAdd(Wide(buf.off), buf.cap)),
                             WideAdd(Wide(buf.off + len), additional))))

\* BytesMut::reserve(additional) on a buffer of len readable bytes: nothing
\* to do with room enough; else the bytes are moved to the front of the
\* allocation when they are no more than those advanced over and that makes
\* room enough; else the allocation grows
BytesMutReserve(bits, buf, len, additional) ==
    IF WideLe(additional, WideSub(buf.cap, Wide(len)))
    THEN [panic |-> FALSE, buf |-> buf]
    ELSE IF buf.off >= len
            /\ WideLe(additional,
                      WideAdd(WideSub(buf.cap, Wide(len)), Wide(buf.off)))
         THEN [panic |-> FALSE, buf |-> Buf(0, WideAdd(buf.cap, Wide(buf.off)))]
    ELSE VecReserve(bits, buf, len, additional)

\* The result r of a decode call with the buffer's place after it
WithBuf(r, buf) == [buf |-> buf] @@ r

\* src.reserve(len + 4 - src.len()); return Ok(None)
NeedMore(src, len, res) ==
    IF res.panic THEN [kind |-> "Panic", rest |-> src, buf |-> res.buf]
    ELSE WithBuf(DecodeFrame(src, len), res.buf)

\* Decoder::decode from the length check on, on a target of the given width,
\* for a buffer at the place buf of its allocation
DecodeFrameOn(bits, buf, src, len) ==
    IF LenOverflows(bits, len) THEN [kind |-> "Panic", rest |-> src, buf |-> buf]
    ELSE IF WideGt(len, Len(src) - 4)
         THEN Bind(BytesMutReserve(bits, buf, Len(src),
                                   WideSub(WideAdd(len, Wide(4)), Wide(Len(src)))),
                   LAMBDA res : NeedMore(src, len, res))
    ELSE Bind(DecodeFrame(src, len),
              LAMBDA r : WithBuf(r, BufAdvance(buf, Len(src) - Len(r.rest))))

\* Decoder::decode on the buffer src at the place buf of its allocation:
\* kind "None" is Ok(None), "Some" is Ok(Some(msg)), "Err" is Err(e), "Panic"
\* a panic of the call; rest is the buffer after the call, buf its place.
CodecDecodeOn(bits, buf, src) ==
    IF Len(src) < 4 THEN [kind |-> "None", rest |-> src, buf |-> buf]
    ELSE Bind(U32FromBe(Take(src, 4)),
              LAMBDA len : DecodeFrameOn(bits, buf, src, len))

\* Decoder::decode where usize is 64 bits wide, on Framed's buffer
CodecDecode(src) == CodecDecodeOn(64, Buf(0, Wide(InitialCapacity)), src)

\* ------------------------------------------------------------------------
\* State
\* ------------------------------------------------------------------------
VARIABLES
    \* Message::encode / Message::decode applied to one input
    fnPc,       \* "off", "msg", "body", "encoded", "decoded", "panicked"
    fnIn,       \* the Message to encode, or the entries of the body to decode
    fnBytes,    \* the encoded body
    fnOut,      \* the result of Message::decode
    \* one byte stream with a Codec at each end
    sent,       \* frames written so far: [msg |-> Option<Message>, frame |-> bytes]
    txPanicked, \* the writer hit the todo!() arm of Message::encode
    usizeBits,  \* the width of usize on the reader's target
    rxPanicked, \* the reader's Codec::decode panicked
    srcOff,     \* bytes advanced over that the reader's buffer still holds
    srcCap,     \* the capacity of the reader's buffer
    dst,        \* bytes written and not yet delivered to the reader
    src,        \* the reader's buffer (the BytesMut handed to Codec::decode)
    rxItems,    \* results of the decode calls that returned a message or an error
    lastCall,   \* the Codec::decode call just made, if the last step was one
    \* connections: each end is one call of RepoHandle::connect_tokio_io
    dir,        \* the direction argument
    selfId,     \* self.get_repo_id() of the RepoHandle the call is made on
    link,       \* 0: the remote peer is the environment; else the end connected
    pc,         \* "idle", "recv", "send", "flush", "done", "failed", "closed"
    otherId,    \* the local other_id of an Incoming call, between recv and send
    pipe,       \* bytes written to the end's io and not yet decoded by it
    eof,        \* the remote peer has shut down its writing half
    writable,   \* writes to the io succeed
    peerWrote,  \* frames the environment wrote: [msg |-> Option<Message>, frame |-> bytes]
    hsSent,     \* messages connect_tokio_io has given to sink.send
    wbuf,       \* Framed's write buffer: bytes encoded and not yet taken by the io
    wrote,      \* bytes the io has taken from the end, in order
    ret,        \* what the call returned: "none" yet, "Ok", or the CodecError variant
    firstItem,  \* what the handshake's stream.next() returned
    registry,   \* the other_id of each new_remote_repo call
    generic,    \* items of the Framed stream polled through the narrowed stream
    narrowed,   \* items of the narrowed stream seen by the registry
    repoSent,   \* RepoMessages the registry has sent on the narrowed sink
    \* storage: one InMemoryStorage or one AsyncInMemoryStorage
    impl,       \* "off", "InMemoryStorage", "AsyncInMemoryStorage"
    withStep,   \* the with_step argument of AsyncInMemoryStorage::new
    documents,  \* the document map: id -> Option<bytes>
    chan,       \* requests in the channel to the worker
    results,    \* the worker's queue of completions not yet released
    canSendResult, \* the worker's can_send_result
    worker,     \* "running" or "panicked"
    ops,        \* operations processed, in order, each with its result
    released,   \* operations whose completion the worker has released
    delivered,  \* results that have reached the caller's future
    nCalls,     \* calls made on the storage
    pnrCalls,   \* process_next_result calls made
    pnrServed,  \* ProcessNextResult requests the worker has handled
    request,    \* the request the worker has received and not yet handled
    orphaned,   \* requests dropped with the channel: their futures hold Err
    callerPanics \* calls that panicked at their unwrap: the channel was closed

fnVars == <<fnPc, fnIn, fnBytes, fnOut>>
codecVars ==
    <<sent, txPanicked, usizeBits, rxPanicked, srcOff, srcCap, dst, src,
      rxItems, lastCall>>
sinkVars == <<wbuf, wrote>>
connVars ==
    <<dir, selfId, link, pc, otherId, pipe, eof, writable, peerWrote, hsSent,
      firstItem, registry, generic, narrowed, sinkVars, ret>>
lostVars == <<request, orphaned, callerPanics>>
storeVars ==
    <<impl, withStep, documents, chan, results, canSendResult, worker, ops,
      released, delivered, nCalls, pnrCalls, pnrServed, lostVars>>
vars == <<fnVars, codecVars, connVars, repoSent, storeVars>>

notFn == <<codecVars, connVars, repoSent, storeVars>>
notCodec == <<fnVars, connVars, repoSent, storeVars>>
notConn == <<fnVars, codecVars, repoSent, storeVars>>
notStore == <<fnVars, codecVars, connVars, repoSent>>

\* ------------------------------------------------------------------------
\* Inputs
\* ------------------------------------------------------------------------
IdA == <<97>>
IdB == <<98>>
IdLong == <<112, 101, 101, 114, 45, 97>>
\* A text outside ASCII: U+00E9 in UTF-8
TextAccent == <<195, 169>>
RepoIds == {<<>>, IdA, IdB, IdLong, TextAccent}
DocIds == {<<100>>, <<>>}
Payloads == {<<>>, <<0>>, <<255, 1, 128>>}
TypeFrobnicate == <<102, 114, 111, 98>>

HandshakeMessages == {Join(i) : i \in RepoIds} \cup {Joined(i) : i \in RepoIds}
SyncMessages ==
    {Sync(f, t, d, p) : f \in {IdA, <<>>}, t \in {IdB}, d \in DocIds, p \in Payloads}
EphemeralMessages == {Ephemeral(IdA, IdB, <<100>>, p) : p \in {<<>>, <<7>>}}
Messages == HandshakeMessages \cup SyncMessages \cup EphemeralMessages

\* Bodies given to Message::decode directly: a CBOR map of the entries
Entry(k, v) == [key |-> k, val |-> v]

RECURSIVE EncEntries(_)
EncEntries(es) ==
    IF es = <<>> THEN <<>>
    ELSE EncStr(Head(es).key) \o Head(es).val \o EncEntries(Tail(es))

BuildBody(es) == EncMap(Len(es)) \o EncEntries(es)

FullEntries(tv) ==
    <<Entry(KeyType, EncStr(tv)), Entry(KeySenderId, EncStr(IdA)),
      Entry(KeyTargetId, EncStr(IdB)), Entry(KeyDocumentId, EncStr(<<100>>)),
      Entry(KeyMessage, EncBytes(<<0>>))>>

Reverse(s) == [i \in 1..Len(s) |-> s[Len(s) + 1 - i]]

RECURSIVE Pick(_, _, _)
Pick(es, keep, i) ==
    IF i > Len(es) THEN <<>>
    ELSE (IF i \in keep THEN <<es[i]>> ELSE <<>>) \o Pick(es, keep, i + 1)

TypeValues == {TypeJoin, TypeJoined, TypeMessage, TypeFrobnicate, TextAccent}
BodyInputs ==
    {Pick(IF rev THEN Reverse(FullEntries(tv)) ELSE FullEntries(tv), keep, 1) :
        tv \in TypeValues, keep \in SUBSET (1..5), rev \in BOOLEAN}

\* Entries under keys Message::decode has no arm for, with values of every
\* major type
KeyTypes == KeyType \o <<115>>
KeyV == <<118>>
UnknownValues ==
    {EncStr(TypeJoin), EncBytes(<<0, 1>>), <<10>>, <<24, 200>>, <<32>>,
     <<130, 1, 2>>, <<161, 97, 107, 246>>, <<193, 26, 0, 0, 0, 1>>}
UnknownEntries ==
    {Entry(KeyV, v) : v \in UnknownValues}
        \cup {Entry(KeyTypes, EncStr(TypeMessage)), Entry(TextAccent, <<1>>)}

InsertAt(es, p, e) == SubSeq(es, 1, p) \o <<e>> \o SubSeq(es, p + 1, Len(es))

BaseBodies ==
    {Pick(FullEntries(tv), keep, 1) :
        tv \in TypeValues, keep \in {1..5, {1, 2}, {1, 3, 4, 5}, {2, 3}}}
ExtendedBodies ==
    UNION {{InsertAt(es, p, u) : p \in 0..Len(es), u \in UnknownEntries} :
              es \in BaseBodies}
        \cup {<<Entry(KeyTypes, EncStr(TypeJoin)), Entry(KeyV, <<130, 1, 2>>)>> \o es :
                 es \in BaseBodies}

\* Bodies that are no well-formed map of text keys: ill-formed UTF-8 in a key
\* or a value, an indefinite-length map, more entries announced than present,
\* no map at all
JoinWithId(idBytes) ==
    EncMap(2) \o EncStr(KeyType) \o EncStr(TypeJoin)
        \o EncStr(KeySenderId) \o CborHead(MajorText, Len(idBytes)) \o idBytes
IllFormedTexts ==
    {<<128>>, <<255>>, <<195>>, <<192, 128>>, <<237, 160, 128>>, <<244, 144, 128, 128>>,
     <<97, 195>>, <<226, 130>>}
WellFormedTexts ==
    {TextAccent, <<226, 130, 172>>, <<240, 159, 152, 128>>, <<97, 195, 169>>,
     <<237, 159, 191>>, <<244, 143, 191, 191>>}
RawMsgBodies ==
    {JoinWithId(t) : t \in IllFormedTexts \cup WellFormedTexts}
        \cup {EncMap(1) \o CborHead(MajorText, Len(t)) \o t \o <<1>> : t \in IllFormedTexts}
        \cup {EncMap(2) \o EncStr(KeyType) \o EncStr(TypeFrobnicate) \o EncStr(KeyV) \o v :
                 v \in {<<159, 1, 130, 2, 3, 255>>, <<127, 97, 97, 97, 98, 255>>,
                        <<191, 97, 107, 159, 255, 255>>, <<95, 65, 0, 255>>,
                        <<127, 65, 0, 255>>, <<159, 1>>, <<97, 255>>, <<255>>}}
        \cup {<<191, 255>>, <<128>>, <<>>,
              <<162>> \o EncStr(KeyType) \o EncStr(TypeJoin),
              <<186, 0, 0, 0, 1>> \o EncStr(KeyType) \o EncStr(TypeJoin),
              <<187, 255, 255, 255, 255, 255, 255, 255, 255>>
                  \o EncStr(KeyType) \o EncStr(TypeJoin),
              <<161, 122, 255, 255, 255, 255, 97>>,
              <<161, 97, 107, 90, 128, 0, 0, 0>>}

HasKey(es, k) == \E i \in 1..Len(es) : es[i].key = k
ValueOf(es, k) == (CHOOSE i \in 1..Len(es) : es[i].key = k)

\* ------------------------------------------------------------------------
\* Message::encode and Message::decode as operations on one input
\* ------------------------------------------------------------------------
NoCall == [kind |-> "NoCall"]

CodecIdle ==
    /\ sent = <<>> /\ txPanicked = FALSE /\ dst = <<>> /\ src = <<>>
    /\ usizeBits = 64 /\ rxPanicked = FALSE /\ srcOff = 0 /\ srcCap = Wide(0)
    /\ rxItems = <<>> /\ lastCall = NoCall

FnIdle == fnPc = "off" /\ fnIn = <<>> /\ fnBytes = <<>> /\ fnOut = <<>>

Ends == {1, 2}
NoItem == [kind |-> "NoItem"]

\* No call of connect_tokio_io has been made
ConnIdle ==
    /\ dir = [e \in Ends |-> "Incoming"]
    /\ selfId = [e \in Ends |-> IdLong]
    /\ link = [e \in Ends |-> 0]
    /\ pc = [e \in Ends |-> "idle"]
    /\ otherId = [e \in Ends |-> None]
    /\ pipe = [e \in Ends |-> <<>>]
    /\ eof = [e \in Ends |-> FALSE]
    /\ writable = [e \in Ends |-> TRUE]
    /\ peerWrote = [e \in Ends |-> <<>>]
    /\ hsSent = [e \in Ends |-> <<>>]
    /\ wbuf = [e \in Ends |-> <<>>]
    /\ wrote = [e \in Ends |-> <<>>]
    /\ ret = [e \in Ends |-> "none"]
    /\ firstItem = [e \in Ends |-> NoItem]
    /\ registry = [e \in Ends |-> <<>>]
    /\ generic = [e \in Ends |-> <<>>]
    /\ narrowed = [e \in Ends |-> <<>>]

\* The registry has sent nothing
WireIdle == repoSent = [e \in Ends |-> <<>>]

StoreIds == {"x", "y"}
NoDocuments == [id \in StoreIds |-> None]

\* No storage has been made
StoreIdle ==
    /\ impl = "off" /\ withStep = FALSE /\ documents = NoDocuments
    /\ chan = <<>> /\ results = <<>> /\ canSendResult = FALSE
    /\ worker = "running" /\ ops = <<>> /\ released = <<>> /\ delivered = {}
    /\ nCalls = 0 /\ pnrCalls = 0 /\ pnrServed = 0
    /\ request = None /\ orphaned = <<>> /\ callerPanics = 0

InitMsg ==
    /\ CodecIdle
    /\ ConnIdle /\ WireIdle /\ StoreIdle
    /\ fnOut = <<>>
    /\ \/ fnPc = "msg" /\ fnIn \in Messages /\ fnBytes = <<>>
       \/ /\ fnPc = "body" /\ fnIn \in BodyInputs \cup ExtendedBodies
          /\ fnBytes = BuildBody(fnIn)
       \/ fnPc = "raw" /\ fnIn = <<>> /\ fnBytes \in RawMsgBodies

\* let bytes = msg.encode()
Encoded(e) ==
    /\ IF e.ok THEN fnPc' = "encoded" /\ fnBytes' = e.bytes
       ELSE fnPc' = "panicked" /\ fnBytes' = fnBytes
    /\ UNCHANGED <<fnIn, fnOut, notFn>>

MsgEncode == fnPc = "msg" /\ \E e \in {MessageEncode(fnIn)} : Encoded(e)

\* Message::decode(&bytes)
MsgDecode ==
    /\ fnPc \in {"encoded", "body", "raw"}
    /\ fnOut' = MessageDecode(fnBytes)
    /\ fnPc' = CASE fnPc = "encoded" -> "decoded"
                  [] fnPc = "body" -> "bodyDecoded"
                  [] OTHER -> "rawDecoded"
    /\ UNCHANGED <<fnIn, fnBytes, notFn>>

NextMsg == MsgEncode \/ MsgDecode

SpecMsg == InitMsg /\ [][NextMsg]_vars

\* ------------------------------------------------------------------------
\* One byte stream: a writer that encodes with Codec, a reader that decodes
\* ------------------------------------------------------------------------
\* Bodies a peer can frame without Message::encode
RawBodies ==
    {<<>>, BuildBody(<<Entry(KeyType, EncStr(TypeFrobnicate))>>)}

CodecMessages ==
    {Join(IdA), Joined(IdLong), Sync(IdA, IdB, <<100>>, <<255, 1, 128>>),
     Ephemeral(IdA, IdB, <<100>>, <<7>>)}

InitCodec ==
    /\ FnIdle /\ ConnIdle /\ WireIdle /\ StoreIdle
    /\ sent = <<>> /\ txPanicked = FALSE /\ dst = <<>> /\ src = <<>>
    /\ usizeBits \in UsizeWidths /\ rxPanicked = FALSE
    /\ srcOff = 0 /\ srcCap \in {Wide(0), Wide(InitialCapacity)}
    /\ rxItems = <<>> /\ lastCall = NoCall

\* Length prefixes that announce more than any buffer holds: the largest,
\* the first above isize::MAX of a 32-bit target, and one 15 below it
HugePrefixes ==
    {<<255, 255, 255, 255>>, <<128, 0, 0, 0>>, <<127, 255, 255, 240>>}

\* The writer has written frames only, no prefix without its body
NoneTruncated == \A i \in 1..Len(sent) : Take(sent[i].frame, 4) \notin HugePrefixes

\* Codec.encode(msg, &mut dst)
Written(m, e) ==
    /\ IF e.ok
       THEN /\ dst' = dst \o e.bytes
            /\ sent' = Append(sent, [msg |-> Some(m), frame |-> e.bytes])
            /\ UNCHANGED txPanicked
       ELSE /\ txPanicked' = TRUE
            /\ UNCHANGED <<dst, sent>>
    /\ lastCall' = NoCall
    /\ UNCHANGED <<usizeBits, rxPanicked, srcOff, srcCap, src, rxItems, notCodec>>

CodecSend(m) ==
    /\ ~txPanicked /\ NoneTruncated
    /\ Len(sent) < MaxMsgs
    /\ \E e \in {CodecEncode(m)} : Written(m, e)

\* A peer that frames a body of its own making
RawSend(body) ==
    /\ ~txPanicked /\ NoneTruncated
    /\ Len(sent) < MaxMsgs
    /\ dst' = dst \o U32ToBe(Len(body)) \o body
    /\ sent' = Append(sent, [msg |-> None, frame |-> U32ToBe(Len(body)) \o body])
    /\ lastCall' = NoCall
    /\ UNCHANGED <<txPanicked, usizeBits, rxPanicked, srcOff, srcCap, src, rxItems,
                   notCodec>>

\* A peer that writes a length prefix and one byte of a body that never
\* comes, nor anything after it
TruncatedSend(prefix) ==
    /\ ~txPanicked /\ NoneTruncated
    /\ Len(sent) < MaxMsgs
    /\ dst' = dst \o prefix \o <<160>>
    /\ sent' = Append(sent, [msg |-> None, frame |-> prefix \o <<160>>])
    /\ lastCall' = NoCall
    /\ UNCHANGED <<txPanicked, usizeBits, rxPanicked, srcOff, srcCap, src, rxItems,
                   notCodec>>

\* The chunks the transport can hand over next: one byte, or all there is
TransferSizes(bytes) == {n \in {1, Len(bytes)} : 1 <= n /\ n <= Len(bytes)}

\* BytesMut::extend_from_slice(chunk) has left the buffer at res.buf
Extended(n, res) ==
    /\ ~res.panic
    /\ src' = src \o Take(dst, n)
    /\ dst' = Drop(dst, n)
    /\ srcOff' = res.buf.off
    /\ srcCap' = res.buf.cap
    /\ lastCall' = NoCall
    /\ UNCHANGED <<sent, txPanicked, usizeBits, rxPanicked, rxItems, notCodec>>

\* The transport hands the next n bytes to the reader's buffer:
\* extend_from_slice reserves room for them and appends them. Every way of
\* cutting the byte stream into chunks between decode calls is a behaviour.
Transfer(n) ==
    /\ ~rxPanicked
    /\ \E res \in {BytesMutReserve(usizeBits, Buf(srcOff, srcCap), Len(src),
                                   Wide(n))} : Extended(n, res)

\* Codec.decode(&mut src)
Received(r) ==
    /\ src' = r.rest
    /\ srcOff' = r.buf.off
    /\ srcCap' = r.buf.cap
    /\ lastCall' = [kind |-> r.kind, before |-> src, off |-> srcOff,
                    cap |-> srcCap, nth |-> Len(rxItems) + 1]
    /\ rxItems' = IF r.kind \in {"None", "Panic"} THEN rxItems
                  ELSE IF r.kind = "Some"
                       THEN Append(rxItems, DecodeOk(r.msg))
                       ELSE Append(rxItems, r.err)
    /\ rxPanicked' = (r.kind = "Panic")
    /\ UNCHANGED <<sent, txPanicked, usizeBits, dst, notCodec>>

CodecRecv ==
    /\ ~rxPanicked
    /\ \E r \in {CodecDecodeOn(usizeBits, Buf(srcOff, srcCap), src)} : Received(r)

NextCodec ==
    \/ \E m \in CodecMessages : CodecSend(m)
    \/ \E b \in RawBodies : RawSend(b)
    \/ \E p \in HugePrefixes : TruncatedSend(p)
    \/ \E n \in TransferSizes(dst) : Transfer(n)
    \/ CodecRecv

SpecCodec == InitCodec /\ [][NextCodec]_vars

\* ------------------------------------------------------------------------
\* RepoHandle::connect_tokio_io
\* ------------------------------------------------------------------------
Directions == {"Incoming", "Outgoing"}

\* What Framed's stream gives for the bytes buf readable on the io: the result
\* of Codec::decode on them; when decode asks for more, the poll is pending
\* while the io is open, and at end of input the stream ends (or reports the
\* bytes of an unfinished frame as an error, then ends).
FramedResult(buf, isEof, r) ==
    IF r.kind = "Some" THEN [kind |-> "Ok", msg |-> r.msg, rest |-> r.rest]
    ELSE IF r.kind = "Err" THEN [kind |-> "Err", err |-> "Decode", rest |-> r.rest]
    ELSE IF ~isEof THEN [kind |-> "Pending", rest |-> buf]
    ELSE IF buf = <<>> THEN [kind |-> "End", rest |-> buf]
    ELSE [kind |-> "Err", err |-> "Io", rest |-> <<>>]

\* stream.next().await
FramedNext(buf, isEof) ==
    Bind(CodecDecode(buf), LAMBDA r : FramedResult(buf, isEof, r))

\* The Option<Result<Message, CodecError>> of a poll, without the buffer
ItemOf(x) ==
    IF x.kind = "Ok" THEN [kind |-> "Ok", msg |-> x.msg]
    ELSE IF x.kind = "Err" THEN [kind |-> "Err", err |-> x.err]
    ELSE [kind |-> "End"]

\* IncomingAccepts that takes either handshake message
IncomingAcceptsAnyHandshake(item) ==
    item.kind = "Ok" /\ item.msg.kind \in {"Join", "Joined"}

\* Ok(Message::Join(other_id)) => other_id, _ => return Err(..)
IncomingAccepts(item) == item.kind = "Ok" /\ item.msg.kind = "Join"

\* OutgoingAccepts that takes either handshake message
OutgoingAcceptsAnyHandshake(item) ==
    item.kind = "Ok" /\ item.msg.kind \in {"Join", "Joined"}

\* if let Some(Ok(Message::Joined(other_id))) = stream.next().await
OutgoingAccepts(item) == item.kind = "Ok" /\ item.msg.kind = "Joined"

\* IncomingReply that answers with the message it has just received
IncomingReplyJoin(id) == Join(id)

\* Message::Joined(self.get_repo_id().clone())
IncomingReply(id) == Joined(id)

\* OutgoingHello that announces itself with the reply message
OutgoingHelloJoined(id) == Joined(id)

\* OutgoingHello that announces another repo's id
OutgoingHelloThirdParty(id) == Join(IdLong)

\* Message::Join(self.get_repo_id().clone())
OutgoingHello(id) == Join(id)

\* NarrowItem that hands every decoded message on
NarrowItemPassAll(item) ==
    IF item.kind = "Ok" THEN [kind |-> "Ok", msg |-> item.msg]
    ELSE [kind |-> "Err", err |-> "NetworkError"]

\* stream.map(|msg| match msg { Ok(Message::Repo(m)) => Ok(m), _ => Err(..) })
NarrowItem(item) ==
    IF item.kind = "Ok" /\ item.msg.kind \in {"Sync", "Ephemeral"}
    THEN [kind |-> "Ok", msg |-> item.msg]
    ELSE [kind |-> "Err", err |-> "NetworkError"]

\* The frame Codec::encode makes of m
FrameOf(m) == CodecEncode(m).bytes

\* The call on end e returns: with an error the Framed halves and their io are
\* dropped, so the connected end reads end of input after the bytes already
\* written and its writes fail
DropIo(e, failed) ==
    IF failed /\ link[e] # 0
    THEN /\ eof' = [eof EXCEPT ![link[e]] = TRUE]
         /\ writable' = [writable EXCEPT ![link[e]] = FALSE]
    ELSE UNCHANGED <<eof, writable>>

\* Incoming: stream.next().await has returned x
IncomingGot(e, x) ==
    /\ x.kind # "Pending"
    /\ firstItem' = [firstItem EXCEPT ![e] = ItemOf(x)]
    /\ pipe' = [pipe EXCEPT ![e] = x.rest]
    /\ IF IncomingAccepts(ItemOf(x))
       THEN /\ otherId' = [otherId EXCEPT ![e] = Some(x.msg.id)]
            /\ pc' = [pc EXCEPT ![e] = "send"]
       ELSE /\ pc' = [pc EXCEPT ![e] = "failed"]
            /\ UNCHANGED otherId
    /\ ret' = [ret EXCEPT ![e] = IF IncomingAccepts(ItemOf(x)) THEN @ ELSE "Network"]
    /\ DropIo(e, ~IncomingAccepts(ItemOf(x)))
    /\ UNCHANGED <<dir, selfId, link, peerWrote, hsSent,
                   registry, generic, narrowed, sinkVars, notConn>>

IncomingRecv(e) ==
    /\ dir[e] = "Incoming" /\ pc[e] = "recv"
    /\ \E x \in {FramedNext(pipe[e], eof[e])} : IncomingGot(e, x)

\* sink.send(m) as it starts: Framed's start_send has Codec::encode append the
\* frame of m to the write buffer; the flush is still to come
SendStarted(e, m) ==
    /\ hsSent' = [hsSent EXCEPT ![e] = Append(@, m)]
    /\ wbuf' = [wbuf EXCEPT ![e] = @ \o FrameOf(m)]
    /\ pc' = [pc EXCEPT ![e] = "flush"]
    /\ UNCHANGED <<dir, selfId, link, otherId, pipe, eof, writable, peerWrote,
                   firstItem, registry, generic, narrowed, wrote, ret, notConn>>

\* Incoming: sink.send(Joined) is called
IncomingSend(e) ==
    /\ dir[e] = "Incoming" /\ pc[e] = "send"
    /\ SendStarted(e, IncomingReply(selfId[e]))

\* Outgoing: sink.send(Join) is called
OutgoingSend(e) ==
    /\ dir[e] = "Outgoing" /\ pc[e] = "send"
    /\ SendStarted(e, OutgoingHello(selfId[e]))

\* The io takes a write in pieces of at most IoChunk bytes
IoChunk == 16

\* The numbers of bytes one poll_write may take of the write buffer buf
WriteSizes(buf) == {IF Len(buf) < IoChunk THEN Len(buf) ELSE IoChunk, Len(buf)}

\* Framed's poll_flush: the io takes the first n bytes of the write buffer.
\* Between two of these steps the send is Pending.
FlushWrite(e, n) ==
    /\ pc[e] \in {"flush", "done"} /\ wbuf[e] # <<>> /\ writable[e]
    /\ wbuf' = [wbuf EXCEPT ![e] = Drop(@, n)]
    /\ wrote' = [wrote EXCEPT ![e] = @ \o Take(wbuf[e], n)]
    /\ pipe' = IF link[e] = 0 THEN pipe
               ELSE [pipe EXCEPT ![link[e]] = @ \o Take(wbuf[e], n)]
    /\ UNCHANGED <<dir, selfId, link, pc, otherId, eof, writable, peerWrote,
                   hsSent, firstItem, registry, generic, narrowed, ret, notConn>>

SinkWrite(e) == \E n \in WriteSizes(wbuf[e]) : FlushWrite(e, n)

\* How the flush of end e can end now: a write fails when the io takes no
\* writes; with the buffer written out the io's own flush succeeds, and on an
\* io of the environment that takes no writes it may fail as well (the io
\* that connects two ends has nothing to do in its flush)
FlushOutcomes(e) ==
    IF wbuf[e] # <<>> THEN (IF writable[e] THEN {} ELSE {FALSE})
    ELSE IF writable[e] \/ link[e] # 0 THEN {TRUE}
    ELSE {TRUE, FALSE}

\* AfterSend of a call that goes on when the send has failed
AfterSendIgnoresError(d, ok) == IF d = "Incoming" THEN "done" ELSE "recv"

\* sink.send(msg).await? has returned: where the call goes on
AfterSend(d, ok) ==
    IF ~ok THEN "failed" ELSE IF d = "Incoming" THEN "done" ELSE "recv"

\* sink.send(msg).await? returns on end e; Incoming goes on to
\* new_remote_repo and Ok(()), Outgoing to stream.next()
SendReturned(e, to) ==
    /\ pc' = [pc EXCEPT ![e] = to]
    /\ registry' = IF to = "done"
                   THEN [registry EXCEPT ![e] = Append(@, Unwrap(otherId[e]))]
                   ELSE registry
    /\ wbuf' = [wbuf EXCEPT ![e] = <<>>]
    /\ ret' = [ret EXCEPT ![e] = CASE to = "failed" -> "Io"
                                    [] to = "done" -> "Ok"
                                    [] OTHER -> @]
    /\ DropIo(e, to = "failed")
    /\ UNCHANGED <<dir, selfId, link, otherId, pipe, peerWrote, hsSent,
                   firstItem, generic, narrowed, wrote, notConn>>

SendDone(e) ==
    /\ pc[e] = "flush"
    /\ \E ok \in FlushOutcomes(e) : SendReturned(e, AfterSend(dir[e], ok))

\* Outgoing: stream.next().await has returned x; on Joined, new_remote_repo
\* and Ok(())
OutgoingGot(e, x) ==
    /\ x.kind # "Pending"
    /\ firstItem' = [firstItem EXCEPT ![e] = ItemOf(x)]
    /\ pipe' = [pipe EXCEPT ![e] = x.rest]
    /\ IF OutgoingAccepts(ItemOf(x))
       THEN /\ registry' = [registry EXCEPT ![e] = Append(@, x.msg.id)]
            /\ pc' = [pc EXCEPT ![e] = "done"]
       ELSE /\ pc' = [pc EXCEPT ![e] = "failed"]
            /\ UNCHANGED registry
    /\ ret' = [ret EXCEPT ![e] = IF OutgoingAccepts(ItemOf(x)) THEN "Ok" ELSE "Network"]
    /\ DropIo(e, ~OutgoingAccepts(ItemOf(x)))
    /\ UNCHANGED <<dir, selfId, link, otherId, peerWrote, hsSent,
                   generic, narrowed, sinkVars, notConn>>

OutgoingRecv(e) ==
    /\ dir[e] = "Outgoing" /\ pc[e] = "recv"
    /\ \E x \in {FramedNext(pipe[e], eof[e])} : OutgoingGot(e, x)

\* The poll that follows an error item: Framed, by its version, either reads
\* on or answers None once to mark the error and reads on with the next poll
AfterError(items) == items # <<>> /\ items[Len(items)].kind = "Err"

\* The None a poll gives while the io is open; map hands it on as it is
NoneMark == [kind |-> "None"]

\* The registry polls the narrowed stream handed to new_remote_repo
NarrowedGot(e, x, mark) ==
    /\ mark \/ x.kind # "Pending"
    /\ pipe' = [pipe EXCEPT ![e] = IF mark THEN @ ELSE x.rest]
    /\ IF mark
       THEN /\ generic' = [generic EXCEPT ![e] = Append(@, NoneMark)]
            /\ narrowed' = [narrowed EXCEPT ![e] = Append(@, NoneMark)]
            /\ UNCHANGED pc
       ELSE IF x.kind = "End"
       THEN /\ pc' = [pc EXCEPT ![e] = "closed"]
            /\ UNCHANGED <<generic, narrowed>>
       ELSE /\ generic' = [generic EXCEPT ![e] = Append(@, ItemOf(x))]
            /\ narrowed' = [narrowed EXCEPT ![e] = Append(@, NarrowItem(ItemOf(x)))]
            /\ UNCHANGED pc
    /\ UNCHANGED <<dir, selfId, link, otherId, eof, writable, peerWrote, hsSent,
                   firstItem, registry, sinkVars, ret, notConn>>

NarrowedNext(e) ==
    /\ pc[e] = "done"
    /\ \E mark \in {FALSE, AfterError(generic[e])} :
          \E x \in {FramedNext(pipe[e], eof[e])} : NarrowedGot(e, x, mark)

\* ------------------------------------------------------------------------
\* The remote peer as environment of one connection
\* ------------------------------------------------------------------------
PeerMessages ==
    {Join(IdB), Join(<<>>), Joined(IdB), Sync(IdB, IdLong, <<100>>, <<0>>)}
GarbageBody == BuildBody(<<Entry(KeyType, EncStr(TypeFrobnicate))>>)
\* The first bytes of a frame whose rest never comes
Truncated == <<0, 0, 0, 5, 161>>

PeerCanWrite(e) ==
    /\ link[e] = 0 /\ pc[e] # "idle" /\ ~eof[e]
    /\ Len(peerWrote[e]) < MaxItems

\* The peer writes the frame of a message
PeerSend(e, m) ==
    /\ PeerCanWrite(e)
    /\ pipe' = [pipe EXCEPT ![e] = @ \o CodecEncode(m).bytes]
    /\ peerWrote' = [peerWrote EXCEPT
                       ![e] = Append(@, [msg |-> Some(m), frame |-> CodecEncode(m).bytes])]
    /\ UNCHANGED <<dir, selfId, link, pc, otherId, eof, writable, hsSent,
                   firstItem, registry, generic, narrowed, sinkVars, ret, notConn>>

\* The peer writes a frame whose body is no Message
PeerSendGarbage(e) ==
    /\ PeerCanWrite(e)
    /\ pipe' = [pipe EXCEPT ![e] = @ \o U32ToBe(Len(GarbageBody)) \o GarbageBody]
    /\ peerWrote' = [peerWrote EXCEPT
                       ![e] = Append(@, [msg |-> None,
                                         frame |-> U32ToBe(Len(GarbageBody)) \o GarbageBody])]
    /\ UNCHANGED <<dir, selfId, link, pc, otherId, eof, writable, hsSent,
                   firstItem, registry, generic, narrowed, sinkVars, ret, notConn>>

\* The peer shuts down its writing half, after a whole frame or inside one
PeerClose(e, inFrame) ==
    /\ link[e] = 0 /\ pc[e] # "idle" /\ ~eof[e]
    /\ inFrame => Len(peerWrote[e]) < MaxItems
    /\ eof' = [eof EXCEPT ![e] = TRUE]
    /\ pipe' = [pipe EXCEPT ![e] = IF inFrame THEN @ \o Truncated ELSE @]
    /\ peerWrote' = [peerWrote EXCEPT
                       ![e] = IF inFrame
                              THEN Append(@, [msg |-> None, frame |-> Truncated])
                              ELSE @]
    /\ UNCHANGED <<dir, selfId, link, pc, otherId, writable, hsSent,
                   firstItem, registry, generic, narrowed, sinkVars, ret, notConn>>

\* The peer stops reading: writes to the io fail from now on
PeerReset(e) ==
    /\ link[e] = 0 /\ pc[e] # "idle" /\ writable[e]
    /\ writable' = [writable EXCEPT ![e] = FALSE]
    /\ UNCHANGED <<dir, selfId, link, pc, otherId, pipe, eof, peerWrote, hsSent,
                   firstItem, registry, generic, narrowed, sinkVars, ret, notConn>>

\* StartPc of a call that reads before it writes in both directions
StartPcRecvFirst(d) == "recv"

\* The first await of connect_tokio_io, by direction
StartPc(d) == IF d = "Incoming" THEN "recv" ELSE "send"

\* One call of connect_tokio_io, on end 1, with the environment as its peer
Init ==
    /\ FnIdle /\ CodecIdle /\ WireIdle /\ StoreIdle
    /\ dir \in [Ends -> Directions] /\ dir[2] = "Incoming"
    /\ selfId = [e \in Ends |-> IdLong]
    /\ link = [e \in Ends |-> 0]
    /\ pc = [e \in Ends |-> IF e = 1 THEN StartPc(dir[e]) ELSE "idle"]
    /\ otherId = [e \in Ends |-> None]
    /\ pipe = [e \in Ends |-> <<>>]
    /\ eof = [e \in Ends |-> FALSE]
    /\ writable = [e \in Ends |-> TRUE]
    /\ peerWrote = [e \in Ends |-> <<>>]
    /\ hsSent = [e \in Ends |-> <<>>]
    /\ wbuf = [e \in Ends |-> <<>>]
    /\ wrote = [e \in Ends |-> <<>>]
    /\ ret = [e \in Ends |-> "none"]
    /\ firstItem = [e \in Ends |-> NoItem]
    /\ registry = [e \in Ends |-> <<>>]
    /\ generic = [e \in Ends |-> <<>>]
    /\ narrowed = [e \in Ends |-> <<>>]

Next ==
    \/ \E e \in Ends : IncomingRecv(e)
    \/ \E e \in Ends : IncomingSend(e)
    \/ \E e \in Ends : OutgoingSend(e)
    \/ \E e \in Ends : SinkWrite(e)
    \/ \E e \in Ends : SendDone(e)
    \/ \E e \in Ends : OutgoingRecv(e)
    \/ \E e \in Ends : NarrowedNext(e)
    \/ \E e \in Ends, m \in PeerMessages : PeerSend(e, m)
    \/ \E e \in Ends : PeerSendGarbage(e)
    \/ \E e \in Ends, inFrame \in BOOLEAN : PeerClose(e, inFrame)
    \/ \E e \in Ends : PeerReset(e)

Spec == Init /\ [][Next]_vars

\* ------------------------------------------------------------------------
\* Two calls on one RepoHandle: the peer of end 1 never writes, the peer of
\* end 2 follows the protocol
\* ------------------------------------------------------------------------
\* The handshake message a peer that follows the protocol writes: Join to an
\* Incoming end, Joined to an Outgoing end once that end's Join has arrived
PeerHandshake(e) ==
    /\ peerWrote[e] = <<>>
    /\ dir[e] = "Outgoing" => hsSent[e] # <<>>
    /\ PeerSend(e, IF dir[e] = "Incoming" THEN Join(IdB) ELSE Joined(IdB))

PeerSyncs == {Sync(IdB, IdLong, <<100>>, p) : p \in {<<>>, <<0>>}}

\* Sync messages of that peer, after its handshake message
PeerSync(e, m) == peerWrote[e] # <<>> /\ PeerSend(e, m)

InitStall ==
    /\ FnIdle /\ CodecIdle /\ WireIdle /\ StoreIdle
    /\ dir \in [Ends -> Directions]
    /\ selfId = [e \in Ends |-> IdLong]
    /\ link = [e \in Ends |-> 0]
    /\ pc = [e \in Ends |-> StartPc(dir[e])]
    /\ otherId = [e \in Ends |-> None]
    /\ pipe = [e \in Ends |-> <<>>]
    /\ eof = [e \in Ends |-> FALSE]
    /\ writable = [e \in Ends |-> TRUE]
    /\ peerWrote = [e \in Ends |-> <<>>]
    /\ hsSent = [e \in Ends |-> <<>>]
    /\ wbuf = [e \in Ends |-> <<>>]
    /\ wrote = [e \in Ends |-> <<>>]
    /\ ret = [e \in Ends |-> "none"]
    /\ firstItem = [e \in Ends |-> NoItem]
    /\ registry = [e \in Ends |-> <<>>]
    /\ generic = [e \in Ends |-> <<>>]
    /\ narrowed = [e \in Ends |-> <<>>]

\* A step of the task that runs connect_tokio_io on end e
TaskStep(e) ==
    \/ IncomingRecv(e) \/ IncomingSend(e) \/ OutgoingSend(e) \/ OutgoingRecv(e)
    \/ pc[e] = "flush" /\ SinkWrite(e)
    \/ SendDone(e)

NextStall ==
    \/ \E e \in Ends : IncomingRecv(e)
    \/ \E e \in Ends : IncomingSend(e)
    \/ \E e \in Ends : OutgoingSend(e)
    \/ \E e \in Ends : SinkWrite(e)
    \/ \E e \in Ends : SendDone(e)
    \/ \E e \in Ends : OutgoingRecv(e)
    \/ \E e \in Ends : NarrowedNext(e)
    \/ PeerHandshake(2)
    \/ \E m \in PeerSyncs : PeerSync(2, m)
    \/ PeerClose(2, FALSE) /\ peerWrote[2] # <<>>

\* Every spawned task that can make a step is polled; the peer of end 2
\* writes its handshake message when it is its turn.
SpecStall ==
    /\ InitStall /\ [][NextStall]_vars
    /\ \A e \in Ends : WF_vars(TaskStep(e))
    /\ WF_vars(PeerHandshake(2))

\* ------------------------------------------------------------------------
\* Two calls of connect_tokio_io on the two ends of one byte stream
\* ------------------------------------------------------------------------
RepoMessages == {Sync(IdA, IdB, <<100>>, p) : p \in {<<>>, <<0>>}}

\* The registry sends a RepoMessage on the sink it was given: sink.with
\* wraps it as Message::Repo and Codec::encode frames it into the write
\* buffer, which FlushWrite hands to the io; the registry sends the next
\* message when the one before is flushed. With the handshake message an end
\* puts MaxItems items on the other end's stream.
RepoSend(e, m) ==
    /\ pc[e] = "done" /\ link[e] # 0 /\ writable[e] /\ wbuf[e] = <<>>
    /\ Len(hsSent[e]) + Len(repoSent[e]) < MaxItems
    /\ repoSent' = [repoSent EXCEPT ![e] = Append(@, m)]
    /\ wbuf' = [wbuf EXCEPT ![e] = @ \o FrameOf(m)]
    /\ UNCHANGED <<dir, selfId, link, pc, otherId, pipe, eof, writable, peerWrote,
                   hsSent, firstItem, registry, generic, narrowed, wrote, ret,
                   fnVars, codecVars, storeVars>>

InitPair ==
    /\ FnIdle /\ CodecIdle /\ WireIdle /\ StoreIdle
    /\ dir \in [Ends -> Directions]
    /\ selfId = [e \in Ends |-> IF e = 1 THEN IdA ELSE IdB]
    /\ link = [e \in Ends |-> IF e = 1 THEN 2 ELSE 1]
    /\ pc = [e \in Ends |-> StartPc(dir[e])]
    /\ otherId = [e \in Ends |-> None]
    /\ pipe = [e \in Ends |-> <<>>]
    /\ eof = [e \in Ends |-> FALSE]
    /\ writable = [e \in Ends |-> TRUE]
    /\ peerWrote = [e \in Ends |-> <<>>]
    /\ hsSent = [e \in Ends |-> <<>>]
    /\ wbuf = [e \in Ends |-> <<>>]
    /\ wrote = [e \in Ends |-> <<>>]
    /\ ret = [e \in Ends |-> "none"]
    /\ firstItem = [e \in Ends |-> NoItem]
    /\ registry = [e \in Ends |-> <<>>]
    /\ generic = [e \in Ends |-> <<>>]
    /\ narrowed = [e \in Ends |-> <<>>]

NextPair ==
    \/ \E e \in Ends : IncomingRecv(e)
    \/ \E e \in Ends : IncomingSend(e)
    \/ \E e \in Ends : OutgoingSend(e)
    \/ \E e \in Ends : SinkWrite(e)
    \/ \E e \in Ends : SendDone(e)
    \/ \E e \in Ends : OutgoingRecv(e)
    \/ \E e \in Ends : NarrowedNext(e)
    \/ \E e \in Ends, m \in RepoMessages : RepoSend(e, m)

\* Every task that can make a step is polled
SpecPair ==
    /\ InitPair /\ [][NextPair]_vars
    /\ \A e \in Ends : WF_vars(TaskStep(e))

\* ------------------------------------------------------------------------
\* InMemoryStorage and AsyncInMemoryStorage (test_utils/src/storage_utils.rs)
\* ------------------------------------------------------------------------
\* StorageRequest
Load(id) == [kind |-> "Load", id |-> id]
AppendRequest(id, data) == [kind |-> "Append", id |-> id, data |-> data]
Compact(id, data) == [kind |-> "Compact", id |-> id, data |-> data]
ListAll == [kind |-> "ListAll"]
ProcessNextResult == [kind |-> "ProcessNextResult"]

AppendData == {<<1>>}
CompactData == {<<2, 3>>}
OpRequests ==
    {Load(id) : id \in StoreIds} \cup {ListAll}
        \cup {AppendRequest(id, d) : id \in StoreIds, d \in AppendData}
        \cup {Compact(id, d) : id \in StoreIds, d \in CompactData}
InitDocuments == {NoDocuments, [NoDocuments EXCEPT !["x"] = Some(<<9>>)]}

\* documents.keys().cloned().collect(), in no particular order
DocKeys(docs) == {id \in StoreIds : IsSome(docs[id])}

\* documents.entry(id).or_insert_with(Default::default).append(&mut data)
EntryAppend(docs, id, data) ==
    [docs EXCEPT ![id] = Some((IF IsSome(@) THEN Unwrap(@) ELSE <<>>) \o data)]

\* InMemoryStorage::compact: documents.insert(id, full_doc)
MemCompact(docs, id, data) == [docs EXCEPT ![id] = Some(data)]

\* The Compact arm of the worker:
\* documents.entry(doc_id).and_modify(|e| *e = data).or_insert_with(Default::default)
WorkerCompact(docs, id, data) ==
    [docs EXCEPT ![id] = IF IsSome(@) THEN Some(data) ELSE Some(<<>>)]

\* What the operation's future resolves to, taken from the map docs
ResultOf(req, docs) ==
    IF req.kind = "Load" THEN [kind |-> "Bytes", bytes |-> docs[req.id]]
    ELSE IF req.kind = "ListAll" THEN [kind |-> "Ids", ids |-> DocKeys(docs)]
    ELSE [kind |-> "Unit"]

\* The document map after an InMemoryStorage operation
MemApply(req, docs) ==
    IF req.kind = "Append" THEN EntryAppend(docs, req.id, req.data)
    ELSE IF req.kind = "Compact" THEN MemCompact(docs, req.id, req.data)
    ELSE docs

\* The document map after the worker's match arm for an operation
WorkerApply(req, docs) ==
    IF req.kind = "Append" THEN EntryAppend(docs, req.id, req.data)
    ELSE IF req.kind = "Compact" THEN WorkerCompact(docs, req.id, req.data)
    ELSE docs

\* An operation as processed: the map before and after, and its result
OpRecord(req, pre, post) ==
    [req |-> req, pre |-> pre, post |-> post, result |-> ResultOf(req, pre)]

\* A call of InMemoryStorage: done under the lock, the future is ready
MemCall(req) ==
    /\ impl = "InMemoryStorage"
    /\ nCalls < MaxCalls
    /\ nCalls' = nCalls + 1
    /\ documents' = MemApply(req, documents)
    /\ ops' = Append(ops, OpRecord(req, documents, MemApply(req, documents)))
    /\ delivered' = delivered \cup
           {[op |-> Len(ops) + 1, value |-> ResultOf(req, documents)]}
    /\ UNCHANGED <<impl, withStep, chan, results, canSendResult, worker,
                   released, pnrCalls, pnrServed, lostVars, notStore>>

\* The inherent methods of InMemoryStorage, which tests call beside the
\* Storage operations
AddDocument(id, doc) == [kind |-> "AddDocument", id |-> id, data |-> doc]
ContainsDocument(id) == [kind |-> "ContainsDocument", id |-> id]
AddedData == {<<9>>}

\* What add_document / contains_document return
InherentResult(req, docs) ==
    IF req.kind = "ContainsDocument"
    THEN [kind |-> "Bool", value |-> IsSome(docs[req.id])]
    ELSE [kind |-> "Unit"]

\* An inherent call as made: the map before and after, and what it returned
InherentRecord(req, pre, post) ==
    [req |-> req, pre |-> pre, post |-> post, result |-> InherentResult(req, pre)]

\* The call req of an inherent method has left the map post
InherentDone(req, post) ==
    /\ nCalls' = nCalls + 1
    /\ documents' = post
    /\ ops' = Append(ops, InherentRecord(req, documents, post))
    /\ delivered' = delivered \cup
           {[op |-> Len(ops) + 1, value |-> InherentResult(req, documents)]}
    /\ UNCHANGED <<impl, withStep, chan, results, canSendResult, worker,
                   released, pnrCalls, pnrServed, lostVars, notStore>>

\* InMemoryStorage::add_document
MemAddDocument(id, doc) ==
    /\ impl = "InMemoryStorage"
    /\ nCalls < MaxCalls
    /\ InherentDone(AddDocument(id, doc), EntryAppend(documents, id, doc))

\* InMemoryStorage::contains_document
MemContainsDocument(id) ==
    /\ impl = "InMemoryStorage"
    /\ nCalls < MaxCalls
    /\ InherentDone(ContainsDocument(id), documents)

\* channel::<StorageRequest>(1)
ChanCap == 1

\* A call of AsyncInMemoryStorage: blocking_send(request).unwrap(). The
\* request goes into the channel once there is room; with the receiver
\* dropped the send fails and the unwrap panics.
StorageCall(req) ==
    /\ impl = "AsyncInMemoryStorage"
    /\ nCalls < MaxCalls
    /\ nCalls' = nCalls + 1
    /\ IF worker = "panicked"
       THEN callerPanics' = callerPanics + 1 /\ chan' = chan
       ELSE Len(chan) < ChanCap /\ chan' = Append(chan, req)
                /\ callerPanics' = callerPanics
    /\ UNCHANGED <<impl, withStep, documents, results, canSendResult, worker,
                   ops, released, delivered, pnrCalls, pnrServed, request,
                   orphaned, notStore>>

\* AsyncInMemoryStorage::process_next_result: send(..).await.unwrap()
ProcessNextResultCall ==
    /\ impl = "AsyncInMemoryStorage"
    /\ nCalls < MaxCalls
    /\ nCalls' = nCalls + 1
    /\ IF worker = "panicked"
       THEN callerPanics' = callerPanics + 1 /\ chan' = chan
                /\ pnrCalls' = pnrCalls
       ELSE Len(chan) < ChanCap /\ chan' = Append(chan, ProcessNextResult)
                /\ pnrCalls' = pnrCalls + 1 /\ callerPanics' = callerPanics
    /\ UNCHANGED <<impl, withStep, documents, results, canSendResult, worker,
                   ops, released, delivered, pnrServed, request, orphaned,
                   notStore>>

\* doc_request_receiver.recv().await has returned the oldest request: its
\* place in the channel is free before the loop body runs
WorkerRecv ==
    /\ impl = "AsyncInMemoryStorage" /\ worker = "running"
    /\ request = None /\ chan # <<>>
    /\ request' = Some(Head(chan))
    /\ chan' = Tail(chan)
    /\ UNCHANGED <<impl, withStep, documents, results, canSendResult, worker,
                   ops, released, delivered, nCalls, pnrCalls, pnrServed,
                   orphaned, callerPanics, notStore>>

\* The worker's state as one iteration of its loop carries it
WorkerState(docs, res, rel, can, log) ==
    [documents |-> docs, results |-> res, released |-> rel, canSend |-> can,
     ops |-> log, panicked |-> FALSE]

\* match request { .. }
Matched(req) ==
    IF req.kind = "ProcessNextResult"
    THEN IF results # <<>>
         THEN WorkerState(documents, Tail(results),
                          Append(released, Head(results)), canSendResult, ops)
         ELSE WorkerState(documents, results, released, TRUE, ops)
    ELSE WorkerState(WorkerApply(req, documents),
                     Append(results, Len(ops) + 1), released, canSendResult,
                     Append(ops, OpRecord(req, documents,
                                          WorkerApply(req, documents))))

\* ReleaseStep that lets a completion go whatever with_step says
ReleaseStepAlways(m) ==
    IF m.results = <<>> THEN m
    ELSE [m EXCEPT !.results = Tail(@),
                   !.released = Append(@, Head(m.results))]

\* if !with_step || can_send_result { results.pop_front().unwrap().send(()) }
ReleaseStep(m) ==
    IF withStep /\ ~m.canSend THEN m
    ELSE IF m.results = <<>> THEN [m EXCEPT !.panicked = TRUE]
    ELSE [m EXCEPT !.results = Tail(@),
                   !.released = Append(@, Head(m.results))]

\* The body of the worker's loop has left m. A panic ends the task: the
\* receiver is dropped, and with it the requests still in the channel, whose
\* senders are dropped unanswered.
Served(req, m) ==
    /\ request' = None
    /\ chan' = IF m.panicked THEN <<>> ELSE chan
    /\ orphaned' = IF m.panicked
                   THEN orphaned \o SelectSeq(chan,
                            LAMBDA r : r.kind # "ProcessNextResult")
                   ELSE orphaned
    /\ documents' = m.documents
    /\ results' = m.results
    /\ released' = m.released
    /\ canSendResult' = m.canSend
    /\ ops' = m.ops
    /\ worker' = IF m.panicked THEN "panicked" ELSE "running"
    /\ pnrServed' = IF req.kind = "ProcessNextResult" THEN pnrServed + 1
                    ELSE pnrServed
    /\ UNCHANGED <<impl, withStep, delivered, nCalls, pnrCalls, callerPanics,
                   notStore>>

\* The body of `while let Some(request) = .. { .. }` for the request received
WorkerStep ==
    /\ impl = "AsyncInMemoryStorage" /\ worker = "running"
    /\ IsSome(request)
    /\ \E m \in {ReleaseStep(Matched(Unwrap(request)))} :
           Served(Unwrap(request), m)

\* DeliveredValue that reads the document map when the completion is let go
DeliveredValueLate(i) == ResultOf(ops[i].req, documents)

\* The result the spawned task holds for operation i
DeliveredValue(i) == ops[i].result

IsDelivered(i) == \E d \in delivered : d.op = i

\* The task spawned for operation i: rx.await.unwrap(); sender.send(result)
WaiterDeliver(i) ==
    /\ impl = "AsyncInMemoryStorage"
    /\ \E k \in 1..Len(released) : released[k] = i
    /\ ~IsDelivered(i)
    /\ delivered' = delivered \cup {[op |-> i, value |-> DeliveredValue(i)]}
    /\ UNCHANGED <<impl, withStep, documents, chan, results, canSendResult,
                   worker, ops, released, nCalls, pnrCalls, pnrServed, lostVars,
                   notStore>>

InitStore ==
    /\ FnIdle /\ CodecIdle /\ ConnIdle /\ WireIdle
    /\ impl \in {"InMemoryStorage", "AsyncInMemoryStorage"}
    /\ withStep \in BOOLEAN
    /\ impl = "InMemoryStorage" => withStep = FALSE
    /\ documents \in InitDocuments
    /\ chan = <<>> /\ results = <<>> /\ canSendResult = FALSE
    /\ worker = "running" /\ ops = <<>> /\ released = <<>> /\ delivered = {}
    /\ nCalls = 0 /\ pnrCalls = 0 /\ pnrServed = 0
    /\ request = None /\ orphaned = <<>> /\ callerPanics = 0

NextStore ==
    \/ \E req \in OpRequests : MemCall(req)
    \/ \E id \in StoreIds, doc \in AddedData : MemAddDocument(id, doc)
    \/ \E id \in StoreIds : MemContainsDocument(id)
    \/ \E req \in OpRequests : StorageCall(req)
    \/ ProcessNextResultCall
    \/ WorkerRecv
    \/ WorkerStep
    \/ \E i \in 1..MaxCalls : WaiterDeliver(i)

SpecStore == InitStore /\ [][NextStore]_vars

\* ------------------------------------------------------------------------
\* Claims about connect_tokio_io (Spec)
\* ------------------------------------------------------------------------
ExpectedKind(d) == IF d = "Incoming" THEN "Join" ELSE "Joined"
GotExpected(e) ==
    firstItem[e].kind = "Ok" /\ firstItem[e].msg.kind = ExpectedKind(dir[e])
Returned(e) == pc[e] \in {"done", "closed", "failed"}
ReturnedOk(e) == pc[e] \in {"done", "closed"}

\* C1: when the first item of the stream is not the expected handshake
\* message, the call has failed and made no new_remote_repo call; a
\* new_remote_repo call is made only after the expected message was received.
HandshakeRejection ==
    \A e \in Ends :
        /\ (firstItem[e] # NoItem /\ ~GotExpected(e)) =>
               (pc[e] = "failed" /\ ret[e] = "Network" /\ registry[e] = <<>>)
        /\ registry[e] # <<>> => (firstItem[e] # NoItem /\ GotExpected(e))

\* C1 witness: an Incoming call that received a Sync message first
HandshakeRejectionWitness ==
    /\ dir[1] = "Incoming" /\ pc[1] = "failed" /\ ret[1] = "Network"
    /\ firstItem[1].kind = "Ok" /\ firstItem[1].msg.kind = "Sync"
    /\ registry[1] = <<>>

\* s is t or the first bytes of t
IsPrefix(s, t) == Len(s) <= Len(t) /\ s = Take(t, Len(s))

InSend(e) == pc[e] \in {"send", "flush"}

\* C2 (as stated): an Incoming call whose first message was Join(p) has, once
\* it is past the send, sent exactly Joined(selfId), registered p once and
\* returned success.
IncomingJoinSucceeds ==
    \A e \in Ends :
        (dir[e] = "Incoming" /\ firstItem[e] # NoItem /\ GotExpected(e)
            /\ ~InSend(e)) =>
            /\ ReturnedOk(e) /\ ret[e] = "Ok"
            /\ hsSent[e] = <<Joined(selfId[e])>>
            /\ wrote[e] = FrameOf(Joined(selfId[e]))
            /\ registry[e] = <<firstItem[e].msg.id>>

\* C2 (amended): after Join(p) an Incoming call sends Joined(selfId) and
\* nothing else; while the send is outstanding nothing is registered; if the
\* send completes, the whole frame of Joined(selfId) is what the io has
\* taken, p is registered once and the call returns success; if the send
\* fails, the io took none, part or all of that frame, nothing is registered
\* and the call returns the error.
IncomingJoinOutcome ==
    /\ [](\A e \in Ends :
            (dir[e] = "Incoming" /\ firstItem[e] # NoItem /\ GotExpected(e)) =>
                \/ /\ pc[e] = "send" /\ hsSent[e] = <<>> /\ wrote[e] = <<>>
                   /\ registry[e] = <<>>
                \/ /\ pc[e] = "flush" /\ hsSent[e] = <<Joined(selfId[e])>>
                   /\ wrote[e] \o wbuf[e] = FrameOf(Joined(selfId[e]))
                   /\ registry[e] = <<>>
                \/ /\ ReturnedOk(e) /\ ret[e] = "Ok"
                   /\ hsSent[e] = <<Joined(selfId[e])>>
                   /\ wrote[e] = FrameOf(Joined(selfId[e]))
                   /\ registry[e] = <<firstItem[e].msg.id>>
                \/ /\ pc[e] = "failed" /\ ret[e] = "Io" /\ ~writable[e]
                   /\ hsSent[e] = <<Joined(selfId[e])>>
                   /\ IsPrefix(wrote[e], FrameOf(Joined(selfId[e])))
                   /\ registry[e] = <<>>)
    /\ [][\A e \in Ends :
            (dir[e] = "Incoming" /\ pc[e] = "flush" /\ pc'[e] # "flush") =>
                /\ pc'[e] = "done" => wbuf[e] = <<>>
                /\ pc'[e] # "done" => (pc'[e] = "failed" /\ ~writable[e])]_vars

\* C2 witness: Join("b") received, Joined(selfId) sent, "b" registered
IncomingJoinWitness ==
    /\ dir[1] = "Incoming" /\ pc[1] = "done" /\ ret[1] = "Ok"
    /\ firstItem[1] = [kind |-> "Ok", msg |-> Join(IdB)]
    /\ hsSent[1] = <<Joined(IdLong)>>
    /\ wrote[1] = FrameOf(Joined(IdLong))
    /\ registry[1] = <<IdB>>

RECURSIVE Frames(_)
Frames(ws) == IF ws = <<>> THEN <<>> ELSE Head(ws).frame \o Frames(Tail(ws))

\* C3: an Outgoing call has read nothing while its send is outstanding; what
\* it has sent by the time it reads is exactly the frame of Join(selfId); and
\* when the first message it then receives is Joined(p), it has registered p
\* once and returned success, with that one Join as all it sent.
OutgoingHandshake ==
    \A e \in Ends : dir[e] = "Outgoing" =>
        /\ pc[e] = "send" => (hsSent[e] = <<>> /\ wrote[e] = <<>>)
        /\ InSend(e) =>
               /\ firstItem[e] = NoItem
               /\ pipe[e] = Frames(peerWrote[e])
               /\ IsPrefix(wrote[e], FrameOf(Join(selfId[e])))
        /\ (pc[e] = "recv" \/ firstItem[e] # NoItem) =>
               /\ hsSent[e] = <<Join(selfId[e])>>
               /\ wrote[e] = FrameOf(Join(selfId[e]))
        /\ (firstItem[e] # NoItem /\ GotExpected(e)) =>
               /\ ReturnedOk(e) /\ ret[e] = "Ok"
               /\ registry[e] = <<firstItem[e].msg.id>>
               /\ hsSent[e] = <<Join(selfId[e])>>

\* C3 witness: Join(selfId) sent, Joined("b") received, "b" registered
OutgoingHandshakeWitness ==
    /\ dir[1] = "Outgoing" /\ pc[1] = "done"
    /\ firstItem[1] = [kind |-> "Ok", msg |-> Joined(IdB)]
    /\ hsSent[1] = <<Join(IdLong)>>
    /\ wrote[1] = FrameOf(Join(IdLong))
    /\ registry[1] = <<IdB>>

IsItem(x) == x # NoneMark
ItemsOf(s) == SelectSeq(s, IsItem)

\* C4: every poll of the generic stream after the handshake gives the poll of
\* the narrowed stream in the same position: a Sync message unwrapped,
\* any other message or a codec error an error element, a None a None. The
\* i-th item is the (i+1)-th frame the peer wrote, so items after an error
\* element are delivered, and once the io is drained every frame has given
\* its item.
NarrowingInPlace ==
    \A e \in Ends :
        /\ Len(narrowed[e]) = Len(generic[e])
        /\ \A i \in 1..Len(generic[e]) :
              IF generic[e][i] = NoneMark
              THEN narrowed[e][i] = NoneMark
              ELSE IF generic[e][i].kind = "Ok" /\ generic[e][i].msg.kind = "Sync"
              THEN narrowed[e][i] = [kind |-> "Ok", msg |-> generic[e][i].msg]
              ELSE narrowed[e][i] = [kind |-> "Err", err |-> "NetworkError"]
        /\ Len(ItemsOf(generic[e])) < Len(peerWrote[e]) \/ generic[e] = <<>>
        /\ \A i \in 1..Len(ItemsOf(generic[e])) :
              /\ IsSome(peerWrote[e][i + 1].msg) =>
                     ItemsOf(generic[e])[i] =
                         [kind |-> "Ok", msg |-> Unwrap(peerWrote[e][i + 1].msg)]
              /\ ~IsSome(peerWrote[e][i + 1].msg) =>
                     ItemsOf(generic[e])[i].kind = "Err"
        /\ (ReturnedOk(e) /\ pipe[e] = <<>>) =>
              Len(ItemsOf(generic[e])) + 1 = Len(peerWrote[e])

\* C4 witness: a stray Join became an error element and the Sync message
\* after it was delivered
NarrowingWitness ==
    /\ pc[1] = "done"
    /\ Len(generic[1]) = 2
    /\ generic[1][1] = [kind |-> "Ok", msg |-> Join(IdB)]
    /\ narrowed[1][1] = [kind |-> "Err", err |-> "NetworkError"]
    /\ narrowed[1][2] = [kind |-> "Ok", msg |-> Sync(IdB, IdLong, <<100>>, <<0>>)]

\* C9: with the peer of end 1 silent and the peer of end 2 following the
\* protocol, end 2 is eventually registered and returns success, while end 1
\* is never registered and never returns.
StallIndependence ==
    /\ <>(pc[2] = "done" /\ registry[2] = <<IdB>>)
    /\ [](~Returned(1) /\ registry[1] = <<>>)

\* C9 witness: end 2 is established while end 1, Outgoing, has sent its Join
\* and waits
StallWitness ==
    /\ pc[2] = "done" /\ registry[2] = <<IdB>>
    /\ dir[1] = "Outgoing" /\ pc[1] = "recv" /\ hsSent[1] = <<Join(IdLong)>>
    /\ registry[1] = <<>>

\* ------------------------------------------------------------------------
\* Claims about Message::encode / Message::decode (SpecMsg)
\* ------------------------------------------------------------------------
\* C6 (as stated): encode returns normally for every Message, and decoding
\* the encoding of a Message yields that Message.
RoundTripLaw ==
    /\ fnPc # "panicked"
    /\ fnPc = "decoded" => fnOut = DecodeOk(fnIn)

RequiredKeys == <<KeySenderId, KeyTargetId, KeyDocumentId, KeyMessage>>
MissingErrors ==
    <<"MissingSenderId", "MissingTargetId", "MissingDocumentId", "MissingData">>

IsMessageBody(es) ==
    /\ HasKey(es, KeyType)
    /\ es[ValueOf(es, KeyType)].val = EncStr(TypeMessage)

AbsentFields(es) == {i \in 1..4 : ~HasKey(es, RequiredKeys[i])}
Min(S) == CHOOSE x \in S : \A y \in S : x <= y

\* C10 (as stated): for a body of type "message", each absent required field
\* yields its own missing-field error, whichever other fields are present.
MissingFieldIndependent ==
    (fnPc = "bodyDecoded" /\ IsMessageBody(fnIn)) =>
        \A i \in AbsentFields(fnIn) : fnOut = DecodeErr(MissingErrors[i])

\* C10 (amended): for a body of type "message" with a required field absent,
\* decode returns the missing-field error of the first absent field in the
\* order senderId, targetId, documentId, message, wherever the entries stand
\* in the map.
MissingFieldFirstAbsent ==
    (fnPc = "bodyDecoded" /\ IsMessageBody(fnIn) /\ AbsentFields(fnIn) # {}) =>
        fnOut = DecodeErr(MissingErrors[Min(AbsentFields(fnIn))])

\* C10 witness: targetId and message absent, senderId and documentId present
MissingFieldWitness ==
    /\ fnPc = "bodyDecoded"
    /\ IsMessageBody(fnIn)
    /\ AbsentFields(fnIn) = {2, 4}
    /\ fnOut = DecodeErr("MissingTargetId")

\* ------------------------------------------------------------------------
\* Claims about the Codec (SpecCodec)
\* ------------------------------------------------------------------------
\* C5: a decode call made while the pending encoded frame is not wholly in
\* the buffer returns Ok(None) and yields nothing; the call made once the
\* frame is wholly there returns exactly one message, the one encoded.
PartialDeliveryInvariance ==
    (lastCall.kind # "NoCall" /\ lastCall.nth <= Len(sent)
        /\ IsSome(sent[lastCall.nth].msg)) =>
        LET n == lastCall.nth IN
        IF Len(lastCall.before) < Len(sent[n].frame)
        THEN lastCall.kind = "None" /\ Len(rxItems) = n - 1
        ELSE /\ lastCall.kind = "Some"
             /\ Len(rxItems) = n
             /\ rxItems[n] = DecodeOk(Unwrap(sent[n].msg))

\* C5 witness: the second frame, a Sync, completes with the call that finds
\* exactly its bytes in the buffer
PartialDeliveryWitness ==
    /\ lastCall.kind = "Some"
    /\ lastCall.nth = 2
    /\ IsSome(sent[2].msg)
    /\ Unwrap(sent[2].msg).kind = "Sync"
    /\ lastCall.before = sent[2].frame
    /\ rxItems[2] = DecodeOk(Unwrap(sent[2].msg))

\* The request of src.reserve at a call that found the bytes b, too few
ReserveAtCall(b) ==
    BytesMutReserve(usizeBits, Buf(lastCall.off, lastCall.cap), Len(b),
                    WideSub(WideAdd(U32FromBe(Take(b, 4)), Wide(4)), Wide(Len(b))))

\* C7: a decode call returns Ok(None) only when it finds fewer than 4 bytes,
\* or fewer than 4 + L, and it leaves the buffer as it found it. A call that
\* finds so few bytes returns Ok(None), except where usize is 32 bits wide
\* and either L + 4 overflows or the reserve has to grow the allocation
\* beyond isize::MAX: there it panics, the buffer as it was. Where usize is
\* 64 bits wide it does not panic, nor where no bytes advanced over are
\* held, L + 4 is within isize::MAX and the capacity is below 2^30.
NeedMoreKeepsBuffer ==
    lastCall.kind # "NoCall" =>
        LET b == lastCall.before IN
        /\ lastCall.kind = "None" =>
               /\ Len(b) < 4 \/ WideGt(U32FromBe(Take(b, 4)), Len(b) - 4)
               /\ src = b
        /\ (Len(b) < 4 \/ WideGt(U32FromBe(Take(b, 4)), Len(b) - 4)) =>
               /\ lastCall.kind \in {"None", "Panic"}
               /\ src = b
               /\ lastCall.kind = "Panic" <=>
                      /\ usizeBits = 32 /\ Len(b) >= 4
                      /\ \/ LenOverflows(32, U32FromBe(Take(b, 4)))
                         \/ ReserveAtCall(b).panic
               /\ (lastCall.off = 0 /\ WideLe(lastCall.cap, Wide(1073741823))
                      /\ Len(b) >= 4
                      /\ ~WideGt(U32FromBe(Take(b, 4)), 2147483647 - 4)) =>
                      lastCall.kind = "None"

\* C7 witness: on a 32-bit target a frame was decoded and advanced over, and
\* the prefix 7f ff ff f0 with one byte of a body came in one chunk, which
\* moved the position back to 0: the call asks for more without a panic,
\* the buffer as it was
NeedMoreWitness ==
    /\ lastCall.kind = "None" /\ usizeBits = 32
    /\ Len(rxItems) = 1 /\ rxItems[1].ok
    /\ lastCall.off = 0
    /\ lastCall.before = <<127, 255, 255, 240, 160>>
    /\ src = lastCall.before

\* C8: the reader's results are the written frames in writing order, each
\* encoded message decoded to itself, and nothing is left over once all
\* bytes are delivered and decode asks for more (the writer having written
\* frames only, on which no call panics).
OrderPreserved ==
    /\ NoneTruncated => ~rxPanicked
    /\ Len(rxItems) <= Len(sent)
    /\ \A i \in 1..Len(rxItems) :
          IsSome(sent[i].msg) => rxItems[i] = DecodeOk(Unwrap(sent[i].msg))
    /\ (dst = <<>> /\ lastCall.kind = "None" /\ NoneTruncated) =>
          (Len(rxItems) = Len(sent) /\ src = <<>>)

\* C8 witness: two different messages went through in order
OrderPreservedWitness ==
    /\ Len(sent) = 2 /\ Len(rxItems) = 2
    /\ IsSome(sent[1].msg) /\ IsSome(sent[2].msg)
    /\ Unwrap(sent[1].msg).kind = "Sync" /\ Unwrap(sent[2].msg).kind = "Join"
    /\ rxItems = <<DecodeOk(Unwrap(sent[1].msg)), DecodeOk(Unwrap(sent[2].msg))>>

ZeroFrameCall ==
    /\ lastCall.kind # "NoCall"
    /\ Len(lastCall.before) >= 4
    /\ Take(lastCall.before, 4) = <<0, 0, 0, 0>>

\* C11 (as stated): a decode call on a buffer that starts with a zero length
\* prefix consumes the 4 bytes and fails with MissingType.
ZeroLengthMissingType ==
    ZeroFrameCall =>
        /\ lastCall.kind = "Err"
        /\ src = Drop(lastCall.before, 4)
        /\ rxItems[Len(rxItems)] = DecodeErr("MissingType")

\* C11 (amended): a decode call on a buffer that starts with a zero length
\* prefix consumes the 4 bytes and fails with the decoder's own error
\* (DecodeError::Minicbor, the input ends where the map head should be).
ZeroLengthDecodeError ==
    ZeroFrameCall =>
        /\ lastCall.kind = "Err"
        /\ src = Drop(lastCall.before, 4)
        /\ rxItems[Len(rxItems)] = DecodeErr("Minicbor")

\* C11 witness: a zero length frame was taken from in front of another frame
ZeroLengthWitness ==
    /\ ZeroFrameCall
    /\ lastCall.kind = "Err"
    /\ Len(lastCall.before) > 4
    /\ src = Drop(lastCall.before, 4)

\* ------------------------------------------------------------------------
\* Claims about the storage implementations (SpecStore)
\* ------------------------------------------------------------------------
ReleasedOps == {released[k] : k \in 1..Len(released)}
BytesOf(o) == IF IsSome(o) THEN Unwrap(o) ELSE <<>>

\* C12: with with_step, a result reaches the caller only after the worker
\* released its completion, there are never more released completions than
\* process_next_result calls, completions are released in the order the
\* operations were processed, and a ProcessNextResult handled while
\* completions are pending releases exactly the oldest one.
StepwiseRelease ==
    /\ [](withStep =>
            /\ \A d \in delivered : d.op \in ReleasedOps
            /\ Len(released) <= pnrServed /\ pnrServed <= pnrCalls
            /\ \A k \in 1..Len(released) : released[k] = k
            /\ \A k \in 1..Len(results) : results[k] = Len(released) + k
            /\ Len(released) + Len(results) = Len(ops))
    /\ [][(withStep /\ pnrServed' # pnrServed /\ results # <<>>) =>
             /\ released' = Append(released, Head(results))
             /\ results' = Tail(results)]_vars

\* C12 witness: two operations pending, one process_next_result: the first
\* is released and delivered, the second still waits
StepwiseReleaseWitness ==
    /\ withStep /\ Len(ops) = 2 /\ pnrCalls = 1
    /\ released = <<1>> /\ results = <<2>>
    /\ IsDelivered(1) /\ ~IsDelivered(2)

\* C13 (as stated): in both implementations compact(id, blob) leaves exactly
\* blob under id, stored before or not, so that a get(id) that follows
\* returns blob; append(id, bytes) leaves the previous bytes followed by
\* bytes.
CompactStoresBlob ==
    \A i \in 1..Len(ops) :
        /\ ops[i].req.kind = "Compact" =>
               ops[i].post[ops[i].req.id] = Some(ops[i].req.data)
        /\ ops[i].req.kind = "Append" =>
               ops[i].post[ops[i].req.id] =
                   Some(BytesOf(ops[i].pre[ops[i].req.id]) \o ops[i].req.data)
        /\ (i < Len(ops) /\ ops[i].req.kind = "Compact"
                /\ ops[i + 1].req = Load(ops[i].req.id)) =>
               ops[i + 1].result =
                   [kind |-> "Bytes", bytes |-> Some(ops[i].req.data)]

\* C18 (as stated): the worker never pops from an empty queue of
\* completions: the unwrap of the release step never fails, whatever the
\* requests and with_step.
WorkerNeverPanics == worker # "panicked"

\* C19: the document map changes only when the worker processes a request,
\* and what reaches the caller is the result taken from the map as it was
\* when the operation was processed: a get processed right after an append
\* to its id holds the appended bytes, released or not, and operations
\* processed later do not change it.
SnapshotAtProcessing ==
    impl = "AsyncInMemoryStorage" =>
        /\ ops # <<>> => documents = ops[Len(ops)].post
        /\ \A i \in 2..Len(ops) : ops[i].pre = ops[i - 1].post
        /\ \A d \in delivered :
              d.value = ResultOf(ops[d.op].req, ops[d.op].pre)
        /\ \A i \in 2..Len(ops) :
              (ops[i - 1].req.kind = "Append"
                  /\ ops[i].req = Load(ops[i - 1].req.id)) =>
                  ops[i].result =
                      [kind |-> "Bytes",
                       bytes |-> Some(BytesOf(ops[i - 1].pre[ops[i].req.id])
                                         \o ops[i - 1].req.data)]

\* C19 witness: the get of "x" was processed before an append to "x"; its
\* delivered result is the map's entry of then, not of now
SnapshotWitness ==
    /\ impl = "AsyncInMemoryStorage" /\ withStep
    /\ Len(ops) >= 2
    /\ ops[1].req = Load("x") /\ ops[2].req.kind = "Append" /\ ops[2].req.id = "x"
    /\ \E d \in delivered :
          d.op = 1 /\ d.value.bytes = ops[1].pre["x"] /\ d.value.bytes # documents["x"]

\* ------------------------------------------------------------------------
\* Further claims about Message::decode (SpecMsg)
\* ------------------------------------------------------------------------
KnownKeys == {KeyType, KeySenderId, KeyTargetId, KeyDocumentId, KeyMessage}
IsKnownEntry(e) == e.key \in KnownKeys
KnownOnly(es) == SelectSeq(es, IsKnownEntry)

\* C17: the result of decoding a body is the result of decoding the body
\* made of its entries under type, senderId, targetId, documentId and
\* message alone: entries under other keys are skipped.
UnknownKeysIgnored ==
    fnPc = "bodyDecoded" => fnOut = MessageDecode(BuildBody(KnownOnly(fnIn)))

\* C17 witness: a Sync message decoded from a body with an array under an
\* unknown key between its fields
UnknownKeysWitness ==
    /\ fnPc = "bodyDecoded"
    /\ Len(fnIn) = 6
    /\ fnIn[3] = Entry(KeyV, <<130, 1, 2>>)
    /\ fnOut = DecodeOk(Sync(IdA, IdB, <<100>>, <<0>>))

\* ------------------------------------------------------------------------
\* Further claims about the Codec (SpecCodec)
\* ------------------------------------------------------------------------
WholeFrameCall ==
    /\ lastCall.kind # "NoCall"
    /\ Len(lastCall.before) >= 4
    /\ ~WideGt(U32FromBe(Take(lastCall.before, 4)), Len(lastCall.before) - 4)

\* C16: a decode call that finds 4 + L bytes or more returns a message or a
\* decode error, and in both cases the buffer after the call is the buffer
\* before it without its first 4 + L bytes.
FrameConsumed ==
    /\ WholeFrameCall =>
          /\ lastCall.kind \in {"Some", "Err"}
          /\ src = Drop(lastCall.before, 4 + WideInt(U32FromBe(Take(lastCall.before, 4))))
    /\ lastCall.kind \in {"Some", "Err"} => WholeFrameCall

\* C16 witness: a frame whose body is no Message was taken from in front of
\* the bytes of the next frame
FrameConsumedWitness ==
    /\ WholeFrameCall
    /\ lastCall.kind = "Err"
    /\ ~WideIsZero(U32FromBe(Take(lastCall.before, 4)))
    /\ src # <<>>
    /\ src = Drop(lastCall.before, 4 + WideInt(U32FromBe(Take(lastCall.before, 4))))

\* ------------------------------------------------------------------------
\* Further claims about connect_tokio_io (Spec)
\* ------------------------------------------------------------------------
\* C15: an Incoming call has sent nothing while it waits for the first
\* message and sends only after a Join, so nothing at all when the receive
\* fails; an Outgoing call has read nothing while its send is outstanding,
\* reads only after the whole Join was written, and when the send fails it
\* returns the error with nothing read and nothing registered.
SequentialHandshake ==
    \A e \in Ends :
        /\ dir[e] = "Incoming" =>
              /\ pc[e] = "recv" =>
                     (hsSent[e] = <<>> /\ wbuf[e] = <<>> /\ wrote[e] = <<>>)
              /\ (hsSent[e] # <<>> \/ wrote[e] # <<>>) =>
                     (firstItem[e] # NoItem /\ GotExpected(e))
              /\ (firstItem[e] # NoItem /\ ~GotExpected(e)) =>
                     /\ hsSent[e] = <<>> /\ wbuf[e] = <<>> /\ wrote[e] = <<>>
                     /\ pc[e] = "failed"
        /\ dir[e] = "Outgoing" =>
              /\ InSend(e) =>
                     (firstItem[e] = NoItem /\ pipe[e] = Frames(peerWrote[e]))
              /\ firstItem[e] # NoItem =>
                     (wbuf[e] = <<>> /\ wrote[e] = FrameOf(Join(selfId[e])))
              /\ (Returned(e) /\ firstItem[e] = NoItem) =>
                     /\ pc[e] = "failed" /\ ret[e] = "Io" /\ ~writable[e]
                     /\ registry[e] = <<>>
                     /\ pipe[e] = Frames(peerWrote[e])

\* C15 witness: an Outgoing call whose send failed with part of its Join
\* written returned with the peer's bytes unread
SequentialHandshakeWitness ==
    /\ dir[1] = "Outgoing" /\ pc[1] = "failed" /\ ret[1] = "Io"
    /\ wrote[1] # <<>> /\ wrote[1] # FrameOf(Join(IdLong))
    /\ firstItem[1] = NoItem /\ pipe[1] # <<>> /\ registry[1] = <<>>

\* ------------------------------------------------------------------------
\* Claims about two connected calls (SpecPair)
\* ------------------------------------------------------------------------
RECURSIVE EncAll(_)
EncAll(ms) ==
    IF ms = <<>> THEN <<>> ELSE CodecEncode(Head(ms)).bytes \o EncAll(Tail(ms))

\* The messages end e has taken from its stream, in order
ReadMsgs(e) ==
    (IF firstItem[e].kind = "Ok" THEN <<firstItem[e].msg>> ELSE <<>>)
        \o [i \in 1..Len(generic[e]) |-> generic[e][i].msg]

HelloOf(e) ==
    IF dir[e] = "Outgoing" THEN Join(selfId[e]) ELSE Joined(selfId[e])

Opposite == dir[1] # dir[2]

\* C14: with one end Outgoing and the other Incoming on one stream, both
\* calls eventually return success, each having registered the other's repo
\* id; each end sends one handshake message, its own Join or Joined, before
\* any RepoMessage, and what the other end reads or still has to read is
\* what the io has taken of that message followed by the RepoMessages.
PairHandshake ==
    /\ <>(~Opposite \/ \A e \in Ends :
              ReturnedOk(e) /\ ret[e] = "Ok" /\ registry[e] = <<selfId[link[e]]>>)
    /\ [](Opposite => \A e \in Ends :
              /\ hsSent[e] \in {<<>>, <<HelloOf(e)>>}
              /\ repoSent[e] # <<>> => hsSent[e] # <<>>
              /\ registry[e] \in {<<>>, <<selfId[link[e]]>>}
              /\ \A i \in 1..Len(generic[e]) :
                    generic[e][i].kind = "Ok" /\ generic[e][i].msg.kind = "Sync"
              /\ EncAll(ReadMsgs(link[e])) \o pipe[link[e]] = wrote[e]
              /\ wrote[e] \o wbuf[e] = EncAll(hsSent[e] \o repoSent[e]))

\* C14 witness: both ends established, each under the other's id, and a
\* RepoMessage has gone each way
PairHandshakeWitness ==
    /\ dir[1] = "Outgoing" /\ dir[2] = "Incoming"
    /\ pc[1] = "done" /\ pc[2] = "done"
    /\ registry[1] = <<IdB>> /\ registry[2] = <<IdA>>
    /\ hsSent[1] = <<Join(IdA)>> /\ hsSent[2] = <<Joined(IdB)>>
    /\ Len(generic[1]) >= 1 /\ Len(generic[2]) >= 1

BothAre(d) == dir[1] = d /\ dir[2] = d

\* C20: an end is registered only when the directions are opposite; two
\* Incoming ends send nothing and stay in their first receive; two Outgoing
\* ends each read the other's Join first, and both return an error without
\* registering.
SameDirectionNeverRegisters ==
    /\ [](\A e \in Ends : registry[e] # <<>> => Opposite)
    /\ [](BothAre("Incoming") => \A e \in Ends :
              /\ pc[e] = "recv" /\ hsSent[e] = <<>>
              /\ wrote[e] = <<>> /\ pipe[e] = <<>>)
    /\ [](BothAre("Outgoing") => \A e \in Ends :
              /\ ~ReturnedOk(e)
              /\ firstItem[e] # NoItem =>
                     /\ firstItem[e] = [kind |-> "Ok", msg |-> Join(selfId[link[e]])]
                     /\ pc[e] = "failed" /\ ret[e] = "Network"
              /\ pc[e] = "failed" => firstItem[e] # NoItem)
    /\ <>(~BothAre("Outgoing") \/ \A e \in Ends : pc[e] = "failed")

\* C20 witness: two Outgoing ends, each failed on the other's Join
SameDirectionWitness ==
    /\ BothAre("Outgoing")
    /\ pc[1] = "failed" /\ pc[2] = "failed"
    /\ firstItem[1] = [kind |-> "Ok", msg |-> Join(IdB)]
    /\ firstItem[2] = [kind |-> "Ok", msg |-> Join(IdA)]
    /\ registry[1] = <<>> /\ registry[2] = <<>>

====
